---- MODULE Spec2Model ----
(***************************************************************************)
(* Model of the sysbox-fs namespace-crossing request fabric:               *)
(*   - the agent ("sysbox-fs nsenter"): Init, processRequest and the       *)
(*     per-variant operation handlers (nsenter event, agent side);         *)
(*   - the master: SendRequest, processResponse, TerminateRequest;         *)
(*   - the /proc/sys/net/unix handler and its per-resource mutex.          *)
(* Paths, Go values and JSON values are modelled structurally so that      *)
(* rewriting, encoding and decoding are computed, not assumed.             *)
(***************************************************************************)
EXTENDS Integers, Sequences, FiniteSets, TLC

VARIABLES
    aPc,      \* agent: position in Init/processRequest
    aIn,      \* agent: what arrives on its pipe (credentials, request) and its environment
    aSt,      \* agent: the NSenterEvent it works on, its world, the syscalls it issued
    aOut,     \* agent: the response envelope written on the pipe ("none" when nothing was written)
    mRes,     \* master: outcome of processResponse on aOut
    ev,       \* master: the NSenterEvents (fields, position in SendRequest, return values)
    hp,       \* the helper processes of each event: first child, second child, grand-child
    pipes,    \* the socket pairs: what is in flight in each direction
    reaper,   \* the zombie reaper's counters
    log,      \* per event, the calls the master made on its behalf, in order
    got,      \* per event, whose messages its master and its agent consumed (history)
    wr,       \* /proc/sys/net/unix handler: each writer's position, mutex pointer and values
    mus,      \* the sync.Mutex instances that exist: for each, whether it is locked
    qlen,     \* the kernel's max_dgram_qlen, as the agent reads and writes it
    hc,       \* /proc/sys/net/unix handler: the call it serves, what it did, its result
    sg        \* daemon: main's and signalHandler's positions, the signals delivered

agentVars == <<aPc, aIn, aSt, aOut, mRes>>

\* Variables of the other parts of the model, untouched by the agent's steps.
fabricVars == <<ev, hp, pipes, reaper, log, got>>

handlerVars == <<wr, mus, qlen, hc>>

daemonVars == <<sg>>

nonAgentVars == <<fabricVars, handlerVars, daemonVars>>

nonFabricVars == <<agentVars, handlerVars, daemonVars>>

nonHandlerVars == <<agentVars, fabricVars, daemonVars>>

nonDaemonVars == <<agentVars, fabricVars, handlerVars>>

vars == <<aPc, aIn, aSt, aOut, mRes, ev, hp, pipes, reaper, log, got, wr, mus, qlen, hc, sg>>

\* ------------------------------------------------------------------ bounds

\* Longest mount / umount / chown batch the agent is handed.
MaxBatch == 3

\* ------------------------------------------------------------------- paths

\* A path is its leading part (/proc/self, /proc/<pid>, or neither) and the rest.
AbsPath(r) == [pfx |-> "abs", pid |-> 0, rest |-> r]

SelfPath(r) == [pfx |-> "self", pid |-> 0, rest |-> r]

PidPath(p, r) == [pfx |-> "pid", pid |-> p, rest |-> r]

EmptyPath == AbsPath("")

BeginsWithProcSelf(p) == p.pfx = "self"

\* Rests under /proc/self that the resolver cannot follow.
UnresolvableRests == {"dangling"}

NoErr == "none"

\* process.ResolveProcSelf: a /proc/self path becomes the caller's /proc/<pid> path.
ResolveProcSelf(pid, p) ==
    IF BeginsWithProcSelf(p)
    THEN IF p.rest \in UnresolvableRests
         THEN [path |-> p, err |-> "ELOOP"]
         ELSE [path |-> PidPath(pid, p.rest), err |-> NoErr]
    ELSE [path |-> p, err |-> NoErr]

\* --------------------------------------------------------------- Go values

\* A Go value: its dynamic type, whether it is held through a pointer, its content.
GoVal(t, p, c) == [gt |-> t, ptr |-> p, v |-> c]

GoNil == GoVal("nil", FALSE, <<>>)

GoString(s) == GoVal("string", FALSE, s)

GoInt(n) == GoVal("int", FALSE, n)

\* fuse.IOerror{RcvError: err}
IOerror(err) == GoVal("IOerror", TRUE, err)

\* A nil *NSenterMessage.
NoMsg == [Type |-> "none", Payload |-> GoNil]

Msg(t, p) == [Type |-> t, Payload |-> p]

RequestTypes ==
    {"LookupRequest", "OpenFileRequest", "ReadFileRequest", "WriteFileRequest",
     "ReadDirRequest", "MountSyscallRequest", "UmountSyscallRequest",
     "ChownSyscallRequest", "MountInfoRequest", "MountInodeRequest", "SleepRequest"}

\* The response type each request variant answers with on success.
ResponseOf(t) ==
    CASE t = "LookupRequest" -> "LookupResponse"
      [] t = "OpenFileRequest" -> "OpenFileResponse"
      [] t = "ReadFileRequest" -> "ReadFileResponse"
      [] t = "WriteFileRequest" -> "WriteFileResponse"
      [] t = "ReadDirRequest" -> "ReadDirResponse"
      [] t = "MountSyscallRequest" -> "MountSyscallResponse"
      [] t = "UmountSyscallRequest" -> "UmountSyscallResponse"
      [] t = "ChownSyscallRequest" -> "ChownSyscallResponse"
      [] t = "MountInfoRequest" -> "MountInfoResponse"
      [] t = "MountInodeRequest" -> "MountInodeResponse"
      [] t = "SleepRequest" -> "SleepResponse"
      [] OTHER -> "none"

\* -------------------------------------------------------------------- JSON

JsonNull == [jt |-> "null", of |-> "", v |-> <<>>]

Json(k, shape, c) == [jt |-> k, of |-> shape, v |-> c]

\* The JSON kind encoding/json produces for, and accepts into, a Go type.
JsonKindOf(t) ==
    CASE t = "string" -> "string"
      [] t = "int" -> "number"
      [] t \in {"[]FileInfo", "[]MountSyscallPayload", "[]UmountSyscallPayload",
                "[]ChownSyscallPayload"} -> "array"
      [] OTHER -> "object"

\* json.Marshal of a payload: nil and nil slices encode as null, pointers are followed.
JsonMarshal(g) ==
    IF g.gt = "nil" THEN JsonNull
    ELSE IF JsonKindOf(g.gt) = "array" /\ g.v = <<>> THEN JsonNull
    ELSE Json(JsonKindOf(g.gt), g.gt, g.v)

\* The zero value of a Go type, as far as the handlers read it.
ZeroOf(t) ==
    CASE t = "string" -> GoVal(t, FALSE, <<>>)
      [] t = "int" -> GoVal(t, FALSE, 0)
      [] t = "IOerror" -> GoVal(t, FALSE, NoErr)
      [] t = "LookupPayload" -> GoVal(t, FALSE, [Entry |-> EmptyPath])
      [] t = "OpenFilePayload" -> GoVal(t, FALSE, [File |-> EmptyPath, Flags |-> "", Mode |-> ""])
      [] t = "ReadFilePayload" -> GoVal(t, FALSE, [File |-> EmptyPath])
      [] t = "WriteFilePayload" -> GoVal(t, FALSE, [File |-> EmptyPath, Content |-> <<>>])
      [] t = "ReadDirPayload" -> GoVal(t, FALSE, [Dir |-> EmptyPath])
      [] t = "MountInodeReqPayload" -> GoVal(t, FALSE, [Mountpoints |-> <<>>])
      [] t = "SleepReqPayload" -> GoVal(t, FALSE, [Ival |-> ""])
      [] OTHER -> GoVal(t, FALSE, <<>>)

\* "var p T; if payload != nil { json.Unmarshal(payload, &p) }": a null payload
\* leaves the zero value, a payload of another JSON kind is an error.
JsonUnmarshal(j, t) ==
    IF j.jt = "null" THEN [val |-> ZeroOf(t), err |-> NoErr]
    ELSE IF j.jt = JsonKindOf(t) THEN [val |-> GoVal(t, FALSE, j.v), err |-> NoErr]
    ELSE [val |-> ZeroOf(t), err |-> "UnmarshalTypeError"]

\* json.Marshal(*msg): the envelope {Type, Payload}.
MarshalMsg(m) == [Type |-> m.Type, Payload |-> JsonMarshal(m.Payload)]

\* ------------------------------------------ the agent's world (kernel side)

\* What exists in the namespaces the agent entered.
ExistingRests ==
    {"/proc/sys/net/unix", "/proc/sys/net/unix/max_dgram_qlen", "/empty",
     "/a", "/b", "/m1", "/m2", "ns"}

DirEntries ==
    [d \in {"/proc/sys/net/unix", "/empty"} |->
        IF d = "/empty" THEN <<>> ELSE <<"max_dgram_qlen">>]

Exists(p) == p.rest \in ExistingRests

IsDir(p) == p.rest \in DOMAIN DirEntries

FileInfoOf(name, dir) == [Fname |-> name, FisDir |-> dir]

InodeOf(p) == IF ~Exists(p) THEN 0 ELSE IF p.rest = "/m1" THEN 11 ELSE IF p.rest = "/m2" THEN 12 ELSE 10

Whitespace == {" ", "\n", "\t"}

RECURSIVE TrimLeft(_)
TrimLeft(s) == IF s # <<>> /\ Head(s) \in Whitespace THEN TrimLeft(Tail(s)) ELSE s

RECURSIVE TrimRight(_)
TrimRight(s) ==
    IF s # <<>> /\ s[Len(s)] \in Whitespace THEN TrimRight(SubSeq(s, 1, Len(s) - 1)) ELSE s

\* strings.TrimSpace on a string held as its sequence of characters.
TrimSpace(s) == TrimRight(TrimLeft(s))

\* strconv.Atoi / strconv.ParseInt accept decimal strings only.
NumStrings == {"0", "1", "2"}

AtoiErr(s) == IF s \in NumStrings THEN NoErr ELSE "ErrSyntax"

InitWorld ==
    [mtab |-> <<[target |-> AbsPath("/m1"), source |-> AbsPath("/dev0"),
                 fstype |-> "ext4", flags |-> {}]>>,
     files |-> [f \in {"/proc/sys/net/unix/max_dgram_qlen"} |-> <<"5", "1", "2", "\n">>],
     owner |-> <<>>,
     persona |-> "nsenter"]

HasMount(mtab, tgt) == \E i \in 1..Len(mtab) : mtab[i].target = tgt

\* Index of the topmost mount on tgt.
TopMount(mtab, tgt) ==
    CHOOSE i \in 1..Len(mtab) :
        /\ mtab[i].target = tgt
        /\ \A j \in (i + 1)..Len(mtab) : mtab[j].target # tgt

\* mount(2): a remount changes the topmost mount on the target, anything else stacks
\* a new mount on it.
MountErr(mtab, src, tgt, flags) ==
    IF "MS_REMOUNT" \in flags
    THEN IF HasMount(mtab, tgt) THEN NoErr ELSE "EINVAL"
    ELSE IF Exists(src) /\ Exists(tgt) THEN NoErr ELSE "ENOENT"

MountApply(mtab, src, tgt, fstype, flags) ==
    IF "MS_REMOUNT" \in flags
    THEN [mtab EXCEPT ![TopMount(mtab, tgt)].flags = flags]
    ELSE Append(mtab, [target |-> tgt, source |-> src, fstype |-> fstype, flags |-> flags])

\* umount(2): detaches the topmost mount on the target; fails while it is busy.
UmountErr(mtab, tgt, busy) ==
    IF ~HasMount(mtab, tgt) THEN "EINVAL"
    ELSE IF tgt.rest \in busy THEN "EBUSY"
    ELSE NoErr

UmountApply(mtab, tgt) ==
    LET k == TopMount(mtab, tgt)
    IN  SubSeq(mtab, 1, k - 1) \o SubSeq(mtab, k + 1, Len(mtab))

\* One entry of the agent's record of what it did: a syscall (or a path
\* resolution) with its path arguments and its error.
Call(op, a1, a2, err, role) == [op |-> op, a1 |-> a1, a2 |-> a2, err |-> err, role |-> role]

\* The event of a freshly started agent (Init): nothing but the service pointer.
NewAgentState ==
    [Pid |-> 0, ReqMsg |-> NoMsg, ResMsg |-> NoMsg, w |-> InitWorld,
     calls |-> <<>>, crashed |-> FALSE, perr |-> NoErr]

ErrorMsg(err) == Msg("ErrorResponse", IOerror(err))

\* --------------------------------------------- agent operations (handlers)
\* Each handler maps the agent's state st = [Pid, ReqMsg, ResMsg, w, calls,
\* crashed] to its state on return; env is what the environment decides
\* (busy mountpoints, whether the helper services fail).

Respond(st, m) == [st EXCEPT !.ResMsg = m]

Logged(st, c) == [st EXCEPT !.calls = Append(@, c)]

processLookupRequest(st, env) ==
    LET payload == st.ReqMsg.Payload.v
        err == IF Exists(payload.Entry) THEN NoErr ELSE "ENOENT"
        s1 == Logged(st, Call("stat", payload.Entry, EmptyPath, err, "main"))
    IN  IF err # NoErr
        THEN Respond(s1, ErrorMsg(err))
        ELSE Respond(s1, Msg("LookupResponse",
                 GoVal("FileInfo", FALSE,
                       FileInfoOf(payload.Entry.rest, IsDir(payload.Entry)))))

processOpenFileRequest(st, env) ==
    LET payload == st.ReqMsg.Payload.v
        ferr == AtoiErr(payload.Flags)
        merr == AtoiErr(payload.Mode)
        oerr == IF Exists(payload.File) THEN NoErr ELSE "ENOENT"
        s1 == Logged(st, Call("atoi", EmptyPath, EmptyPath, ferr, "main"))
        s2 == Logged(s1, Call("atoi", EmptyPath, EmptyPath, merr, "main"))
        s3 == Logged(s2, Call("open", payload.File, EmptyPath, oerr, "main"))
    IN  IF ferr # NoErr THEN Respond(s1, ErrorMsg(ferr))
        ELSE IF merr # NoErr THEN Respond(s2, ErrorMsg(merr))
        ELSE IF oerr # NoErr THEN Respond(s3, ErrorMsg(oerr))
        ELSE Respond(s3, Msg("OpenFileResponse", GoNil))

processFileReadRequest(st, env) ==
    LET payload == st.ReqMsg.Payload.v
        err == IF payload.File.rest \in DOMAIN st.w.files THEN NoErr
               ELSE IF Exists(payload.File) THEN "EISDIR" ELSE "ENOENT"
        s1 == Logged(st, Call("read", payload.File, EmptyPath, err, "main"))
    IN  IF err # NoErr
        THEN Respond(s1, ErrorMsg(err))
        ELSE Respond(s1, Msg("ReadFileResponse",
                             GoString(TrimSpace(st.w.files[payload.File.rest]))))

processFileWriteRequest(st, env) ==
    LET payload == st.ReqMsg.Payload.v
        err == IF payload.File.rest \in DOMAIN st.w.files THEN NoErr
               ELSE IF Exists(payload.File) THEN "EISDIR" ELSE "ENOENT"
        s1 == Logged(st, Call("write", payload.File, EmptyPath, err, "main"))
    IN  IF err # NoErr
        THEN Respond(s1, ErrorMsg(err))
        ELSE Respond([s1 EXCEPT !.w.files[payload.File.rest] = payload.Content],
                     Msg("WriteFileResponse", GoNil))

processDirReadRequest(st, env) ==
    LET payload == st.ReqMsg.Payload.v
        err == IF IsDir(payload.Dir) THEN NoErr
               ELSE IF Exists(payload.Dir) THEN "ENOTDIR" ELSE "ENOENT"
        s1 == Logged(st, Call("readdir", payload.Dir, EmptyPath, err, "main"))
        names == DirEntries[payload.Dir.rest]
        dirContentList == [i \in 1..Len(names) |-> FileInfoOf(names[i], FALSE)]
    IN  IF err # NoErr
        THEN Respond(s1, ErrorMsg(err))
        ELSE Respond(s1, Msg("ReadDirResponse", GoVal("[]FileInfo", FALSE, dirContentList)))

\* The mount loop of processMountSyscallRequest from entry i on: the state when
\* the loop is left, with the index it stopped at and the error it stopped on.
RECURSIVE MountLoop(_, _, _)
MountLoop(st, payload, i) ==
    IF i > Len(payload) THEN [st |-> st, payload |-> payload, i |-> i, err |-> NoErr]
    ELSE
    LET rs == ResolveProcSelf(st.Pid, payload[i].Source)
        p1 == [payload EXCEPT ![i].Source = rs.path]
        s1 == Logged(st, Call("resolve", payload[i].Source, EmptyPath, rs.err, "main"))
        rt == ResolveProcSelf(st.Pid, payload[i].Target)
        p2 == [p1 EXCEPT ![i].Target = rt.path]
        s2 == Logged(s1, Call("resolve", payload[i].Target, EmptyPath, rt.err, "main"))
        merr == MountErr(st.w.mtab, p2[i].Source, p2[i].Target, p2[i].Flags)
        s3 == Logged(s2, Call("mount", p2[i].Source, p2[i].Target, merr, "main"))
        s4 == [s3 EXCEPT !.w.mtab =
                  MountApply(@, p2[i].Source, p2[i].Target, p2[i].FsType, p2[i].Flags)]
    IN  IF rs.err # NoErr THEN [st |-> s1, payload |-> p1, i |-> i, err |-> rs.err]
        ELSE IF rt.err # NoErr THEN [st |-> s2, payload |-> p2, i |-> i, err |-> rt.err]
        ELSE IF merr # NoErr THEN [st |-> s3, payload |-> p2, i |-> i, err |-> merr]
        ELSE MountLoop(s4, p2, i + 1)

RECURSIVE MountRollback(_, _, _, _)

\* The rollback unmounting in submission order: entries 1, .., j.
RECURSIVE MountRollbackInSubmissionOrder(_, _, _, _)
MountRollbackInSubmissionOrder(st, payload, j, env) ==
    IF j < 1 THEN st
    ELSE
    LET s0 == MountRollbackInSubmissionOrder(st, payload, j - 1, env)
        uerr == UmountErr(s0.w.mtab, payload[j].Target, env.busy)
        s1 == Logged(s0, Call("umount", payload[j].Target, EmptyPath, uerr, "rollback"))
        s2 == IF uerr = NoErr
              THEN [s1 EXCEPT !.w.mtab = UmountApply(@, payload[j].Target)]
              ELSE s1
    IN  IF "MS_REMOUNT" \in payload[j].Flags THEN s0 ELSE s2

\* The rollback loop given up at the first unmount that fails.
RECURSIVE MountRollbackStopsOnError(_, _, _, _)
MountRollbackStopsOnError(st, payload, j, env) ==
    IF j < 1 THEN st
    ELSE IF "MS_REMOUNT" \in payload[j].Flags
    THEN MountRollbackStopsOnError(st, payload, j - 1, env)
    ELSE
    LET uerr == UmountErr(st.w.mtab, payload[j].Target, env.busy)
        s1 == Logged(st, Call("umount", payload[j].Target, EmptyPath, uerr, "rollback"))
    IN  IF uerr # NoErr THEN s1
        ELSE MountRollbackStopsOnError([s1 EXCEPT !.w.mtab = UmountApply(@, payload[j].Target)],
                                       payload, j - 1, env)

\* The rollback loop: unmount entries j, j-1, .., 1 unless they are remounts.
MountRollback(st, payload, j, env) ==
    IF j < 1 THEN st
    ELSE IF "MS_REMOUNT" \in payload[j].Flags THEN MountRollback(st, payload, j - 1, env)
    ELSE
    LET uerr == UmountErr(st.w.mtab, payload[j].Target, env.busy)
        s1 == Logged(st, Call("umount", payload[j].Target, EmptyPath, uerr, "rollback"))
        s2 == IF uerr = NoErr
              THEN [s1 EXCEPT !.w.mtab = UmountApply(@, payload[j].Target)]
              ELSE s1
    IN  MountRollback(s2, payload, j - 1, env)

processMountSyscallRequest(st, env) ==
    LET payload == st.ReqMsg.Payload.v
    IN  IF payload = <<>> THEN [st EXCEPT !.crashed = TRUE]   \* payload[0]: index out of range
        ELSE
        LET header == payload[1].Header
            overlay == payload[1].FsType = "overlay"
            aerr == IF env.adjustFails THEN "EPERM" ELSE NoErr
            s0 == IF overlay
                  THEN Logged(st, Call("adjust", EmptyPath, EmptyPath, aerr, "main"))
                  ELSE st
            s1 == IF overlay /\ aerr = NoErr THEN [s0 EXCEPT !.w.persona = header] ELSE s0
            lp == MountLoop(s1, payload, 1)
        IN  IF overlay /\ aerr # NoErr THEN Respond(s0, ErrorMsg(aerr))
            ELSE IF lp.err # NoErr
            THEN Respond(MountRollback(lp.st, lp.payload, lp.i - 1, env), ErrorMsg(lp.err))
            ELSE Respond(lp.st, Msg("MountSyscallResponse", GoString(<<>>)))

\* The umount loop going on to the next entry after an unmount has failed.
RECURSIVE UmountLoopGoesOn(_, _, _, _)
UmountLoopGoesOn(st, payload, i, env) ==
    IF i > Len(payload) THEN [st |-> st, err |-> NoErr]
    ELSE
    LET rt == ResolveProcSelf(st.Pid, payload[i].Target)
        s1 == Logged(st, Call("resolve", payload[i].Target, EmptyPath, rt.err, "main"))
        uerr == UmountErr(st.w.mtab, rt.path, env.busy)
        s2 == Logged(s1, Call("umount", rt.path, EmptyPath, uerr, "main"))
        s3 == [s2 EXCEPT !.w.mtab = UmountApply(@, rt.path)]
        rest == UmountLoopGoesOn(Respond(s2, ErrorMsg(uerr)), payload, i + 1, env)
    IN  IF rt.err # NoErr THEN [st |-> s1, err |-> rt.err]
        ELSE IF uerr # NoErr THEN [st |-> rest.st, err |-> uerr]
        ELSE UmountLoopGoesOn(s3, payload, i + 1, env)

\* The loop of processUmountSyscallRequest from entry i on.
RECURSIVE UmountLoop(_, _, _, _)
UmountLoop(st, payload, i, env) ==
    IF i > Len(payload) THEN [st |-> st, err |-> NoErr]
    ELSE
    LET rt == ResolveProcSelf(st.Pid, payload[i].Target)
        s1 == Logged(st, Call("resolve", payload[i].Target, EmptyPath, rt.err, "main"))
        uerr == UmountErr(st.w.mtab, rt.path, env.busy)
        s2 == Logged(s1, Call("umount", rt.path, EmptyPath, uerr, "main"))
        s3 == [s2 EXCEPT !.w.mtab = UmountApply(@, rt.path)]
    IN  IF rt.err # NoErr THEN [st |-> s1, err |-> rt.err]
        ELSE IF uerr # NoErr THEN [st |-> Respond(s2, ErrorMsg(uerr)), err |-> uerr]
        ELSE UmountLoop(s3, payload, i + 1, env)

processUmountSyscallRequest(st, env) ==
    LET lp == UmountLoop(st, st.ReqMsg.Payload.v, 1, env)
    IN  IF lp.err # NoErr THEN lp.st
        ELSE Respond(lp.st, Msg("UmountSyscallResponse", GoString(<<>>)))

RECURSIVE ChownLoop(_, _, _)

\* The chown loop with the resolved path dropped: chown goes to the path as received.
ChownLoopOnReceivedPath(st, payload, i) ==
    IF i > Len(payload) THEN [st |-> st, done |-> FALSE]
    ELSE
    LET rt == ResolveProcSelf(st.Pid, payload[i].Target)
        s1 == Logged(st, Call("resolve", payload[i].Target, EmptyPath, rt.err, "main"))
        cerr == IF Exists(payload[i].Target) THEN NoErr ELSE "ENOENT"
        s2 == Logged(s1, Call("chown", payload[i].Target, EmptyPath, cerr, "main"))
    IN  IF rt.err # NoErr THEN [st |-> s1, done |-> FALSE]
        ELSE IF cerr # NoErr THEN [st |-> Respond(s2, ErrorMsg(cerr)), done |-> TRUE]
        ELSE ChownLoop(s2, payload, i + 1)

\* The loop of processChownSyscallRequest from entry i on; done tells that the
\* handler returned from inside the loop.
ChownLoop(st, payload, i) ==
    IF i > Len(payload) THEN [st |-> st, done |-> FALSE]
    ELSE
    LET rt == ResolveProcSelf(st.Pid, payload[i].Target)
        s1 == Logged(st, Call("resolve", payload[i].Target, EmptyPath, rt.err, "main"))
        cerr == IF Exists(rt.path) THEN NoErr ELSE "ENOENT"
        s2 == Logged(s1, Call("chown", rt.path, EmptyPath, cerr, "main"))
        s3 == [s2 EXCEPT !.w.owner =
                  Append(@, <<rt.path, payload[i].TargetUid, payload[i].TargetGid>>)]
    IN  IF rt.err # NoErr THEN [st |-> s1, done |-> FALSE]              \* break
        ELSE IF cerr # NoErr THEN [st |-> Respond(s2, ErrorMsg(cerr)), done |-> TRUE]
        ELSE ChownLoop(s3, payload, i + 1)

processChownSyscallRequest(st, env) ==
    LET lp == ChownLoop(st, st.ReqMsg.Payload.v, 1)
    IN  IF lp.done THEN lp.st
        ELSE Respond(lp.st, Msg("ChownSyscallResponse", GoString(<<>>)))

processMountInfoRequest(st, env) ==
    LET err == IF env.mountInfoFails THEN "EIO" ELSE NoErr
        s1 == Logged(st, Call("mountinfo", SelfPath("mountinfo"), EmptyPath, err, "main"))
        mountInfoData == [i \in 1..Len(st.w.mtab) |-> st.w.mtab[i].target]
    IN  IF err # NoErr
        THEN Respond(s1, ErrorMsg(err))
        ELSE Respond(s1, Msg("MountInfoResponse",
                             GoVal("MountInfoRespPayload", TRUE, mountInfoData)))

RECURSIVE InodeCalls(_, _)
InodeCalls(mps, i) ==
    IF i > Len(mps) THEN <<>>
    ELSE <<Call("inode", mps[i], EmptyPath, NoErr, "main")>> \o InodeCalls(mps, i + 1)

processMountInodeRequest(st, env) ==
    LET mps == st.ReqMsg.Payload.v.Mountpoints
        mpInodeList == [i \in 1..Len(mps) |-> InodeOf(mps[i])]
    IN  Respond([st EXCEPT !.calls = @ \o InodeCalls(mps, 1)],
                Msg("MountInodeResponse", GoVal("MountInodeRespPayload", TRUE, mpInodeList)))

processSleepRequest(st, env) ==
    LET err == AtoiErr(st.ReqMsg.Payload.v.Ival)
        s1 == Logged(st, Call("parseint", EmptyPath, EmptyPath, err, "main"))
    IN  IF err # NoErr
        THEN Respond(s1, ErrorMsg(err))
        ELSE Respond(Logged(s1, Call("sleep", EmptyPath, EmptyPath, NoErr, "main")),
                     Msg("SleepResponse", GoString(<<>>)))

\* ------------------------------------------- agent: processRequest and Init

\* Nothing on the pipe (end of file).
NoWire == [Type |-> "none", Payload |-> JsonNull]

\* The Go type processRequest decodes the payload of a request variant into.
PayloadTypeOf(t) ==
    CASE t = "LookupRequest" -> "LookupPayload"
      [] t = "OpenFileRequest" -> "OpenFilePayload"
      [] t = "ReadFileRequest" -> "ReadFilePayload"
      [] t = "WriteFileRequest" -> "WriteFilePayload"
      [] t = "ReadDirRequest" -> "ReadDirPayload"
      [] t = "MountSyscallRequest" -> "[]MountSyscallPayload"
      [] t = "UmountSyscallRequest" -> "[]UmountSyscallPayload"
      [] t = "ChownSyscallRequest" -> "[]ChownSyscallPayload"
      [] t = "MountInodeRequest" -> "MountInodeReqPayload"
      [] t = "SleepRequest" -> "SleepReqPayload"
      [] OTHER -> "nil"

\* getProcCreds that takes the pid of the process it runs in (os.Getpid()).
getProcCredsOwnPid(st, cred) ==
    IF cred.ok THEN [st |-> [st EXCEPT !.Pid = 1], err |-> NoErr]
    ELSE [st |-> st, err |-> "Error decoding received process credentials."]

\* getProcCreds: the event's Pid becomes the pid of the SCM_CREDENTIALS message.
getProcCreds(st, cred) ==
    IF cred.ok THEN [st |-> [st EXCEPT !.Pid = cred.pid], err |-> NoErr]
    ELSE [st |-> st, err |-> "Error decoding received process credentials."]

\* processRequest up to the call of the variant's handler: next names the
\* handler to run ("reply" when processRequest returns without running one).
processRequest(st, in) ==
    LET cr == getProcCreds(st, in.cred)
        t == in.req.Type
        dec == JsonUnmarshal(in.req.Payload, PayloadTypeOf(t))
    IN  IF cr.err # NoErr THEN [st |-> [cr.st EXCEPT !.perr = cr.err], next |-> "reply"]
        ELSE IF in.req.Type = "none"
        THEN [st |-> [cr.st EXCEPT !.perr = "Error decoding received event request."],
              next |-> "reply"]
        ELSE IF t = "MountInfoRequest"
        THEN [st |-> [cr.st EXCEPT !.ReqMsg = Msg(t, GoNil)], next |-> t]
        ELSE IF t \in RequestTypes
        THEN IF dec.err # NoErr
             THEN [st |-> [cr.st EXCEPT !.perr = dec.err], next |-> "reply"]
             ELSE [st |-> [cr.st EXCEPT !.ReqMsg = Msg(t, dec.val)], next |-> t]
        ELSE [st |-> Respond(cr.st, Msg("ErrorResponse", GoString(<<"Unsupported request">>))),
              next |-> "reply"]

\* The handler processRequest calls for the variant in st.ReqMsg.
Dispatch(st, env) ==
    LET t == st.ReqMsg.Type
    IN  CASE t = "LookupRequest" -> processLookupRequest(st, env)
          [] t = "OpenFileRequest" -> processOpenFileRequest(st, env)
          [] t = "ReadFileRequest" -> processFileReadRequest(st, env)
          [] t = "WriteFileRequest" -> processFileWriteRequest(st, env)
          [] t = "ReadDirRequest" -> processDirReadRequest(st, env)
          [] t = "MountSyscallRequest" -> processMountSyscallRequest(st, env)
          [] t = "UmountSyscallRequest" -> processUmountSyscallRequest(st, env)
          [] t = "ChownSyscallRequest" -> processChownSyscallRequest(st, env)
          [] t = "MountInfoRequest" -> processMountInfoRequest(st, env)
          [] t = "MountInodeRequest" -> processMountInodeRequest(st, env)
          [] t = "SleepRequest" -> processSleepRequest(st, env)

\* Init after processRequest returned: wrap its error, then encode and write
\* *event.ResMsg (a nil ResMsg is a nil dereference: the agent dies silently).
InitReply(st) ==
    LET s1 == IF st.perr # NoErr THEN Respond(st, ErrorMsg(st.perr)) ELSE st
    IN  IF s1.ResMsg.Type = "none"
        THEN [st |-> [s1 EXCEPT !.crashed = TRUE], out |-> NoWire]
        ELSE [st |-> s1, out |-> MarshalMsg(s1.ResMsg)]

\* The whole agent, from its start to its exit.
AgentRun(in) ==
    LET rq == processRequest(NewAgentState, in)
        s1 == IF rq.next = "reply" THEN rq.st ELSE Dispatch(rq.st, in.env)
    IN  IF s1.crashed THEN [st |-> s1, out |-> NoWire] ELSE InitReply(s1)

\* --------------------------------------------------- master: processResponse

\* The Go type processResponse decodes the payload of a response variant into
\* ("" for the variants whose payload it replaces by the empty string).
ResponsePayloadType(t) ==
    CASE t = "LookupResponse" -> "FileInfo"
      [] t = "OpenFileResponse" -> "int"
      [] t = "ReadFileResponse" -> "string"
      [] t = "ReadDirResponse" -> "[]FileInfo"
      [] t = "MountInfoResponse" -> "MountInfoRespPayload"
      [] t = "MountInodeResponse" -> "MountInodeRespPayload"
      [] t = "ErrorResponse" -> "IOerror"
      [] OTHER -> ""

ResponseTypes == {ResponseOf(t) : t \in RequestTypes} \cup {"ErrorResponse"}

\* processResponse with every variant handled like the empty-payload ones: the
\* payload received is dropped.
processResponseDropsPayload(ResMsg, wire) ==
    IF wire.Type = "none"
    THEN [ResMsg |-> ResMsg, err |-> "Error decoding received nsenterMsg response"]
    ELSE [ResMsg |-> Msg(wire.Type, GoString(<<>>)), err |-> NoErr]

\* processResponse storing the envelope in ResMsg before it decodes the payload
\* and before it knows the type tag.
processResponseStoresEarly(ResMsg, wire) ==
    LET t == wire.Type
        dec == JsonUnmarshal(wire.Payload, ResponsePayloadType(t))
    IN  IF wire.Type = "none"
        THEN [ResMsg |-> ResMsg, err |-> "Error decoding received nsenterMsg response"]
        ELSE IF t \notin ResponseTypes
        THEN [ResMsg |-> Msg(t, GoNil), err |-> "Received unsupported nsenterEvent message."]
        ELSE IF ResponsePayloadType(t) = ""
        THEN [ResMsg |-> Msg(t, GoString(<<>>)), err |-> NoErr]
        ELSE IF dec.err # NoErr
        THEN [ResMsg |-> Msg(t, GoNil), err |-> dec.err]
        ELSE [ResMsg |-> Msg(t, dec.val), err |-> NoErr]

\* processResponse(pipe): the event's ResMsg afterwards and the error returned.
processResponse(ResMsg, wire) ==
    LET t == wire.Type
        dec == JsonUnmarshal(wire.Payload, ResponsePayloadType(t))
    IN  IF wire.Type = "none"
        THEN [ResMsg |-> ResMsg, err |-> "Error decoding received nsenterMsg response"]
        ELSE IF t \notin ResponseTypes
        THEN [ResMsg |-> ResMsg, err |-> "Received unsupported nsenterEvent message."]
        ELSE IF ResponsePayloadType(t) = ""
        THEN [ResMsg |-> Msg(t, GoString(<<>>)), err |-> NoErr]
        ELSE IF dec.err # NoErr
        THEN [ResMsg |-> ResMsg, err |-> dec.err]
        ELSE [ResMsg |-> Msg(t, dec.val), err |-> NoErr]

\* ------------------------------------------------- the agent's bounded inputs

MaxDgramQlen == AbsPath("/proc/sys/net/unix/max_dgram_qlen")

CallerPids == {4242, 4243}

Creds == {[ok |-> TRUE, pid |-> p] : p \in CallerPids} \cup {[ok |-> FALSE, pid |-> 0]}

MountEntry(src, tgt, fstype, flags) ==
    [Source |-> src, Target |-> tgt, FsType |-> fstype, Flags |-> flags,
     Data |-> "", Header |-> "caller"]

MountChoices ==
    {MountEntry(AbsPath("/a"), AbsPath("/m1"), "", {"MS_BIND"}),
     MountEntry(AbsPath("/b"), AbsPath("/m2"), "", {"MS_BIND"}),
     MountEntry(AbsPath("/bogus"), AbsPath("/m2"), "", {"MS_BIND"}),
     MountEntry(SelfPath("ns"), AbsPath("/m2"), "", {"MS_BIND"}),
     MountEntry(AbsPath("/a"), SelfPath("dangling"), "", {"MS_BIND"}),
     MountEntry(AbsPath("/a"), AbsPath("/m1"), "", {"MS_BIND", "MS_REMOUNT"}),
     MountEntry(AbsPath("/a"), AbsPath("/m2"), "overlay", {})}

UmountChoices ==
    {[Target |-> t, Flags |-> 0] :
        t \in {AbsPath("/m1"), AbsPath("/m2"), SelfPath("ns"), SelfPath("dangling")}}

ChownChoices ==
    {[Target |-> t, TargetUid |-> 1000, TargetGid |-> 1000] :
        t \in {AbsPath("/a"), AbsPath("/nosuch"), SelfPath("ns"), SelfPath("dangling")}}

\* Sequences over S of length 0..n.
RECURSIVE SeqsUpTo(_, _)
SeqsUpTo(S, n) ==
    IF n = 0 THEN {<<>>}
    ELSE LET shorter == SeqsUpTo(S, n - 1)
         IN  shorter \cup {Append(q, x) : q \in {r \in shorter : Len(r) = n - 1}, x \in S}

Obj(shape, c) == Json("object", shape, c)

Arr(shape, c) == Json("array", shape, c)

LookupRequests ==
    {[Type |-> "LookupRequest", Payload |-> Obj("LookupPayload", [Entry |-> e])] :
        e \in {MaxDgramQlen, AbsPath("/nosuch"), SelfPath("ns")}}

OpenFileRequests ==
    {[Type |-> "OpenFileRequest",
      Payload |-> Obj("OpenFilePayload", [File |-> f, Flags |-> fl, Mode |-> m])] :
        f \in {MaxDgramQlen, AbsPath("/nosuch"), SelfPath("ns")},
        fl \in {"0", "x"}, m \in {"0", "x"}}

ReadFileRequests ==
    {[Type |-> "ReadFileRequest", Payload |-> Obj("ReadFilePayload", [File |-> f])] :
        f \in {MaxDgramQlen, AbsPath("/nosuch"), SelfPath("ns")}}

WriteFileRequests ==
    {[Type |-> "WriteFileRequest",
      Payload |-> Obj("WriteFilePayload", [File |-> f, Content |-> <<"1", "2", "8">>])] :
        f \in {MaxDgramQlen, AbsPath("/nosuch"), SelfPath("ns")}}

ReadDirRequests ==
    {[Type |-> "ReadDirRequest", Payload |-> Obj("ReadDirPayload", [Dir |-> d])] :
        d \in {AbsPath("/proc/sys/net/unix"), AbsPath("/empty"), AbsPath("/nosuch"),
               SelfPath("ns")}}

MountRequests ==
    {[Type |-> "MountSyscallRequest", Payload |-> Arr("[]MountSyscallPayload", b)] :
        b \in SeqsUpTo(MountChoices, MaxBatch)}

UmountRequests ==
    {[Type |-> "UmountSyscallRequest", Payload |-> Arr("[]UmountSyscallPayload", b)] :
        b \in SeqsUpTo(UmountChoices, MaxBatch)}

ChownRequests ==
    {[Type |-> "ChownSyscallRequest", Payload |-> Arr("[]ChownSyscallPayload", b)] :
        b \in SeqsUpTo(ChownChoices, MaxBatch)}

MountInfoRequests == {[Type |-> "MountInfoRequest", Payload |-> JsonNull]}

MountInodeRequests ==
    {[Type |-> "MountInodeRequest",
      Payload |-> Obj("MountInodeReqPayload", [Mountpoints |-> m])] :
        m \in SeqsUpTo({AbsPath("/m1"), AbsPath("/nosuch"), SelfPath("ns")}, MaxBatch)}

SleepRequests ==
    {[Type |-> "SleepRequest", Payload |-> Obj("SleepReqPayload", [Ival |-> i])] :
        i \in {"1", "x"}}

\* Envelopes the agent can decode but that are outside the protocol: a type tag
\* that is no request (SetAttrRequest has no case in processRequest), a payload
\* of the wrong JSON kind, a null payload.
OddRequests ==
    {[Type |-> "SetAttrRequest", Payload |-> JsonNull]}
    \cup {[Type |-> t, Payload |-> Json("string", "string", <<"bad">>)] :
            t \in RequestTypes \ {"MountInfoRequest"}}
    \cup {[Type |-> t, Payload |-> JsonNull] : t \in RequestTypes}

RequestFamily(fam) ==
    CASE fam = "Lookup" -> LookupRequests
      [] fam = "OpenFile" -> OpenFileRequests
      [] fam = "ReadFile" -> ReadFileRequests
      [] fam = "WriteFile" -> WriteFileRequests
      [] fam = "ReadDir" -> ReadDirRequests
      [] fam = "Mount" -> MountRequests
      [] fam = "Umount" -> UmountRequests
      [] fam = "Chown" -> ChownRequests
      [] fam = "MountInfo" -> MountInfoRequests
      [] fam = "MountInode" -> MountInodeRequests
      [] fam = "Sleep" -> SleepRequests
      [] fam = "Odd" -> OddRequests
      [] OTHER -> {NoWire}

Envs ==
    [busy : {{}, {"/m1"}, {"/m2"}}, adjustFails : BOOLEAN, mountInfoFails : BOOLEAN]

\* What the environment can do that the request variant actually observes.
EnvsFor(req) ==
    {e \in Envs :
        /\ (req.Type \notin {"MountSyscallRequest", "UmountSyscallRequest"} => e.busy = {})
        /\ (req.Type # "MountSyscallRequest" => ~e.adjustFails)
        /\ (req.Type # "MountInfoRequest" => ~e.mountInfoFails)}

\* ----------------------------------------------------- master: the events

Events == {1}

\* How often TerminateRequest is called on one event.
MaxTerminate == 2

DefaultEnv == [busy |-> {}, adjustFails |-> FALSE, mountInfoFails |-> FALSE]

\* ------------------------------------------------------- namespace paths

\* Strings of this part are sequences of pieces; "/" is the path separator and
\* "," the separator of the NsPaths attribute.
AllNSs == <<"user", "pid", "net", "mnt", "ipc", "cgroup", "uts">>

\* The namespace lists of the events: with userns first when it is present.
NamespaceLists == {AllNSs, <<"mnt", "pid">>}

\* strconv.Itoa of a natural number: its decimal digits.
RECURSIVE Itoa(_)
Itoa(n) ==
    LET digit == <<"0", "1", "2", "3", "4", "5", "6", "7", "8", "9">>[(n % 10) + 1]
    IN  IF n < 10 THEN <<digit>> ELSE Itoa(n \div 10) \o <<digit>>

\* filepath.Join: the non-empty elements separated by "/", the result Cleaned
\* (runs of separators become one, a trailing separator is dropped; the
\* elements here hold no "." or ".." piece).
filepathJoin(elems) ==
    LET RECURSIVE Glue(_)
        Glue(es) == IF es = <<>> THEN <<>>
                    ELSE IF Head(es) = <<>> THEN Glue(Tail(es))
                    ELSE IF Glue(Tail(es)) = <<>> THEN Head(es)
                    ELSE Head(es) \o <<"/">> \o Glue(Tail(es))
        RECURSIVE Squeeze(_)
        Squeeze(q) == IF Len(q) < 2 THEN q
                      ELSE IF q[Len(q)] = "/" /\ q[Len(q) - 1] = "/"
                      THEN Squeeze(SubSeq(q, 1, Len(q) - 1))
                      ELSE Squeeze(SubSeq(q, 1, Len(q) - 1)) \o <<q[Len(q)]>>
        Clean(q) == IF Len(Squeeze(q)) > 1 /\ Squeeze(q)[Len(Squeeze(q))] = "/"
                    THEN SubSeq(Squeeze(q), 1, Len(Squeeze(q)) - 1)
                    ELSE Squeeze(q)
    IN  Clean(Glue(elems))

namespacePaths(e) ==
    [i \in 1..Len(e.Namespace) |->
        filepathJoin(<<<<e.Namespace[i]>>, <<":", "/", "proc", "/">>, Itoa(e.Pid),
                       <<"/", "ns", "/">>, <<e.Namespace[i]>>>>)]

\* strings.Join(namespaces, ",") of SendRequest.
RECURSIVE stringsJoin(_, _)
stringsJoin(ss, sep) ==
    IF ss = <<>> THEN <<>>
    ELSE IF Len(ss) = 1 THEN ss[1]
    ELSE ss[1] \o <<sep>> \o stringsJoin(Tail(ss), sep)

NsPathsAttr(e) == stringsJoin(namespacePaths(e), ",")

\* The requests the handlers hand to SendRequest in this model.
FabricRequestKinds == {"read", "lookupMissing", "sleep", "setattr", "badPayload", "umountSelf"}

FabricRequest(k) ==
    CASE k = "read" -> Msg("ReadFileRequest", GoVal("ReadFilePayload", FALSE, [File |-> MaxDgramQlen]))
      [] k = "lookupMissing" ->
            Msg("LookupRequest", GoVal("LookupPayload", FALSE, [Entry |-> AbsPath("/nosuch")]))
      [] k = "sleep" -> Msg("SleepRequest", GoVal("SleepReqPayload", FALSE, [Ival |-> "1"]))
      [] k = "setattr" -> Msg("SetAttrRequest", GoNil)
      [] k = "badPayload" -> Msg("LookupRequest", GoString(<<"bad">>))
      [] k = "umountSelf" ->
            Msg("UmountSyscallRequest",
                GoVal("[]UmountSyscallPayload", FALSE,
                      <<[Target |-> SelfPath("dangling"), Flags |-> 0]>>))

NewEvent(pid, ns, async, k) ==
    [Pid |-> pid, Namespace |-> ns, async |-> async, kind |-> k, ReqMsg |-> FabricRequest(k), ResMsg |-> NoMsg,
     Process |-> "nil", parentPipe |-> "none", childPipe |-> "none", pair |-> 0,
     pc |-> "new", ret |-> "none", nTerm |-> 0, tret |-> "none"]

NoHelpers == [first |-> "none", second |-> "none", grand |-> "none", agentPid |-> 0]

EmptyPipe == [toChild |-> <<>>, toMaster |-> <<>>]

\* Origins (events) of the pid message and the response the master of an event
\* read, and of the credentials and the request its agent read (0: none yet);
\* the kinds of the messages the master wrote, in order; the number of messages
\* other than the pid message that the pid decoder took into its buffer; the
\* kind of the first message processResponse read.
NothingGot == [pid |-> 0, cred |-> 0, req |-> 0, res |-> 0,
               wrote |-> <<>>, lost |-> 0, first |-> "none"]

Count(q, x) == Cardinality({i \in 1..Len(q) : q[i] = x})

\* The reaper's counters after the calls in steps.
ReaperAfter(r, steps) ==
    [started |-> r.started + Count(steps, "nsenterStarted"),
     ended |-> r.ended + Count(steps, "nsenterEnded"),
     reapReq |-> r.reapReq + Count(steps, "nsenterReapReq")]

\* ------------------------------------------------------- handler: writers

Writers == {1, 2}

\* Values the writers try to store.
WriteValues == {6, 7}

NewWriter(v) == [pc |-> "idle", mu |-> 0, val |-> v, cur |-> 0]

\* ------------------------------------------------------ idle parts of a run

FabricIdle ==
    /\ ev = [e \in Events |-> NewEvent(0, <<>>, FALSE, "read")]
    /\ hp = [e \in Events |-> NoHelpers]
    /\ pipes = [e \in Events |-> EmptyPipe]
    /\ reaper = [started |-> 0, ended |-> 0, reapReq |-> 0]
    /\ log = [e \in Events |-> <<>>]
    /\ got = [e \in Events |-> NothingGot]

\* The daemon before main registers for signals: no signalHandler goroutine, no
\* signal delivered, the process running.
DaemonStart ==
    [main |-> "init", handler |-> "none", delivered |-> <<>>, dropped |-> <<>>,
     s |-> "none", unmounts |-> 0, exit |-> "running"]

DaemonIdle == sg = DaemonStart

\* No call of the handler's operations is in progress.
NoCall == [pc |-> "idle"]

HandlerIdle ==
    /\ wr = [w \in Writers |-> NewWriter(0)]
    /\ mus = <<>>
    /\ qlen = 5
    /\ hc = NoCall

\* ------------------------------------------------------ agent specification

AgentIdle ==
    /\ aPc = "idle"
    /\ aIn = [cred |-> [ok |-> FALSE, pid |-> 0], req |-> NoWire,
              env |-> [busy |-> {}, adjustFails |-> FALSE, mountInfoFails |-> FALSE]]
    /\ aSt = NewAgentState
    /\ aOut = NoWire
    /\ mRes = [ResMsg |-> NoMsg, err |-> NoErr]

\* An agent has been started by nsexec: credentials and a request are on its pipe.
AgentInit ==
    /\ aPc = "recv"
    /\ \E r \in {[fam |-> "Lookup"], [fam |-> "OpenFile"], [fam |-> "ReadFile"],
                 [fam |-> "WriteFile"], [fam |-> "ReadDir"], [fam |-> "Mount"],
                 [fam |-> "Umount"], [fam |-> "Chown"], [fam |-> "MountInfo"],
                 [fam |-> "MountInode"], [fam |-> "Sleep"], [fam |-> "Odd"],
                 [fam |-> "EOF"]} :
         \E q \in RequestFamily(r.fam), c \in Creds :
            \E e \in EnvsFor(q) : aIn = [cred |-> c, req |-> q, env |-> e]
    /\ aSt = NewAgentState
    /\ aOut = NoWire
    /\ mRes = [ResMsg |-> NoMsg, err |-> NoErr]
    /\ FabricIdle
    /\ HandlerIdle
    /\ DaemonIdle

AfterHandler(st) == IF st.crashed THEN "crashed" ELSE "reply"

A_processRequest ==
    /\ aPc = "recv"
    /\ LET rq == processRequest(aSt, aIn)
       IN  aSt' = rq.st /\ aPc' = rq.next
    /\ UNCHANGED <<aIn, aOut, mRes, nonAgentVars>>

A_processLookupRequest ==
    /\ aPc = "LookupRequest"
    /\ aSt' = processLookupRequest(aSt, aIn.env)
    /\ aPc' = AfterHandler(aSt')
    /\ UNCHANGED <<aIn, aOut, mRes, nonAgentVars>>

A_processOpenFileRequest ==
    /\ aPc = "OpenFileRequest"
    /\ aSt' = processOpenFileRequest(aSt, aIn.env)
    /\ aPc' = AfterHandler(aSt')
    /\ UNCHANGED <<aIn, aOut, mRes, nonAgentVars>>

A_processFileReadRequest ==
    /\ aPc = "ReadFileRequest"
    /\ aSt' = processFileReadRequest(aSt, aIn.env)
    /\ aPc' = AfterHandler(aSt')
    /\ UNCHANGED <<aIn, aOut, mRes, nonAgentVars>>

A_processFileWriteRequest ==
    /\ aPc = "WriteFileRequest"
    /\ aSt' = processFileWriteRequest(aSt, aIn.env)
    /\ aPc' = AfterHandler(aSt')
    /\ UNCHANGED <<aIn, aOut, mRes, nonAgentVars>>

A_processDirReadRequest ==
    /\ aPc = "ReadDirRequest"
    /\ aSt' = processDirReadRequest(aSt, aIn.env)
    /\ aPc' = AfterHandler(aSt')
    /\ UNCHANGED <<aIn, aOut, mRes, nonAgentVars>>

A_processMountSyscallRequest ==
    /\ aPc = "MountSyscallRequest"
    /\ aSt' = processMountSyscallRequest(aSt, aIn.env)
    /\ aPc' = AfterHandler(aSt')
    /\ UNCHANGED <<aIn, aOut, mRes, nonAgentVars>>

A_processUmountSyscallRequest ==
    /\ aPc = "UmountSyscallRequest"
    /\ aSt' = processUmountSyscallRequest(aSt, aIn.env)
    /\ aPc' = AfterHandler(aSt')
    /\ UNCHANGED <<aIn, aOut, mRes, nonAgentVars>>

A_processChownSyscallRequest ==
    /\ aPc = "ChownSyscallRequest"
    /\ aSt' = processChownSyscallRequest(aSt, aIn.env)
    /\ aPc' = AfterHandler(aSt')
    /\ UNCHANGED <<aIn, aOut, mRes, nonAgentVars>>

A_processMountInfoRequest ==
    /\ aPc = "MountInfoRequest"
    /\ aSt' = processMountInfoRequest(aSt, aIn.env)
    /\ aPc' = AfterHandler(aSt')
    /\ UNCHANGED <<aIn, aOut, mRes, nonAgentVars>>

A_processMountInodeRequest ==
    /\ aPc = "MountInodeRequest"
    /\ aSt' = processMountInodeRequest(aSt, aIn.env)
    /\ aPc' = AfterHandler(aSt')
    /\ UNCHANGED <<aIn, aOut, mRes, nonAgentVars>>

A_processSleepRequest ==
    /\ aPc = "SleepRequest"
    /\ aSt' = processSleepRequest(aSt, aIn.env)
    /\ aPc' = AfterHandler(aSt')
    /\ UNCHANGED <<aIn, aOut, mRes, nonAgentVars>>

\* Init's tail: the response is encoded and written, and the agent exits.
A_InitReply ==
    /\ aPc = "reply"
    /\ LET r == InitReply(aSt)
       IN  /\ aSt' = r.st
           /\ aOut' = r.out
           /\ aPc' = IF r.st.crashed THEN "crashed" ELSE "sent"
    /\ UNCHANGED <<aIn, mRes, nonAgentVars>>

\* The master reads the agent's reply (or the end of file a dead agent leaves).
M_processResponse ==
    /\ aPc \in {"sent", "crashed"}
    /\ mRes' = processResponse(NoMsg, aOut)
    /\ aPc' = "done"
    /\ UNCHANGED <<aIn, aSt, aOut, nonAgentVars>>

AgentNext ==
    \/ A_processRequest
    \/ A_processLookupRequest
    \/ A_processOpenFileRequest
    \/ A_processFileReadRequest
    \/ A_processFileWriteRequest
    \/ A_processDirReadRequest
    \/ A_processMountSyscallRequest
    \/ A_processUmountSyscallRequest
    \/ A_processChownSyscallRequest
    \/ A_processMountInfoRequest
    \/ A_processMountInodeRequest
    \/ A_processSleepRequest
    \/ A_InitReply
    \/ M_processResponse

AgentSpec == AgentInit /\ [][AgentNext]_vars

\* ------------------------------------------- properties of the agent's run

\* The variant's handler has returned (or died) for the request in aSt.ReqMsg.
HandlerReturned == aPc \in {"reply", "sent", "crashed", "done"} /\ aSt.ReqMsg.Type \in RequestTypes

\* Indices of the steps of the operation proper that failed.
FailedSteps == {i \in 1..Len(aSt.calls) : aSt.calls[i].role = "main" /\ aSt.calls[i].err # NoErr}

FirstFailedStep == CHOOSE i \in FailedSteps : \A j \in FailedSteps : i <= j

IsErrorResponseOf(m, err) ==
    /\ m.Type = "ErrorResponse"
    /\ m.Payload.gt = "IOerror"
    /\ m.Payload.v = err

\* C3: for every agent operation and every failing step in it (a failed
\* /proc/self resolution in a mount, umount or chown batch included) the
\* response is an ErrorResponse carrying the error of the failing step, and
\* the operation's success response is produced only when no step failed.
C3_ErrorResponseOnEveryFailure ==
    HandlerReturned =>
        /\ FailedSteps # {} => IsErrorResponseOf(aSt.ResMsg, aSt.calls[FirstFailedStep].err)
        /\ aSt.ResMsg.Type = ResponseOf(aSt.ReqMsg.Type) => FailedSteps = {}

\* The mounts of the batch that succeeded, by their position in the batch.
MountsDone ==
    Cardinality({i \in 1..Len(aSt.calls) :
                    /\ aSt.calls[i].op = "mount"
                    /\ aSt.calls[i].role = "main"
                    /\ aSt.calls[i].err = NoErr})

\* A mount batch whose k-th entry failed (k = MountsDone + 1) after k-1 mounts
\* none of which is a remount.
MountBatchFailedWithoutRemount ==
    /\ HandlerReturned
    /\ aSt.ReqMsg.Type = "MountSyscallRequest"
    /\ \E i \in FailedSteps : aSt.calls[i].op \in {"resolve", "mount"}
    /\ \A j \in 1..MountsDone : "MS_REMOUNT" \notin aSt.ReqMsg.Payload.v[j].Flags

\* C4: when the k-th mount of a batch fails and none of mounts 1..k-1 is a
\* remount, the mount table after processMountSyscallRequest returns equals the
\* mount table before it started.
C4_MountTableRestored ==
    MountBatchFailedWithoutRemount => aSt.w.mtab = InitWorld.mtab

\* The agent answered with the success response of the request's variant and
\* the master has run processResponse on it.
RoundTripDone ==
    /\ aPc = "done"
    /\ aSt.ReqMsg.Type \in RequestTypes
    /\ aSt.ResMsg.Type = ResponseOf(aSt.ReqMsg.Type)

\* reflect.DeepEqual on two payloads: same dynamic type (a pointer is not its
\* pointee) and same content.
DeepEqual(a, b) ==
    /\ a.gt = b.gt
    /\ a.ptr = b.ptr
    /\ a.v = b.v

\* C9 as stated: for every request variant and every success response of the
\* agent, processResponse yields a ResMsg of the variant's response type whose
\* payload is deep-equal to the payload the agent produced.
C9_RoundTripDeepEqual ==
    RoundTripDone =>
        /\ mRes.err = NoErr
        /\ mRes.ResMsg.Type = aSt.ResMsg.Type
        /\ DeepEqual(mRes.ResMsg.Payload, aSt.ResMsg.Payload)

\* C9 as the code has it: the type is the variant's response type; the payload
\* has the agent's content, held by value where the agent held a pointer
\* (MountInfo, MountInode); for OpenFile and WriteFile the agent's payload is
\* nil and the master's is the int 0 and the empty string.
C9_RoundTripContent ==
    RoundTripDone =>
        /\ mRes.err = NoErr
        /\ mRes.ResMsg.Type = aSt.ResMsg.Type
        /\ ~mRes.ResMsg.Payload.ptr
        /\ IF aSt.ResMsg.Type = "OpenFileResponse"
           THEN /\ aSt.ResMsg.Payload.gt = "nil"
                /\ mRes.ResMsg.Payload.gt = "int"
                /\ mRes.ResMsg.Payload.v = 0
           ELSE IF aSt.ResMsg.Type = "WriteFileResponse"
           THEN /\ aSt.ResMsg.Payload.gt = "nil"
                /\ mRes.ResMsg.Payload.gt = "string"
                /\ mRes.ResMsg.Payload.v = <<>>
           ELSE /\ mRes.ResMsg.Payload.gt = aSt.ResMsg.Payload.gt
                /\ mRes.ResMsg.Payload.v = aSt.ResMsg.Payload.v
                /\ aSt.ResMsg.Payload.ptr <=>
                      aSt.ResMsg.Type \in {"MountInfoResponse", "MountInodeResponse"}

\* A directory listing with an entry made the round trip.
C9_Witness ==
    /\ RoundTripDone
    /\ aSt.ResMsg.Type = "ReadDirResponse"
    /\ mRes.ResMsg.Type = "ReadDirResponse"
    /\ Len(mRes.ResMsg.Payload.v) = 1

\* The agent's syscalls that take a path argument of the request.
PathSyscalls == {"stat", "open", "read", "write", "readdir", "mount", "umount", "chown", "inode"}

\* C10 as stated: no syscall of any operation that takes a path argument is
\* issued on a path that still begins with /proc/self.
C10_NoSyscallOnProcSelf ==
    \A i \in 1..Len(aSt.calls) :
        aSt.calls[i].op \in PathSyscalls =>
            /\ ~BeginsWithProcSelf(aSt.calls[i].a1)
            /\ ~BeginsWithProcSelf(aSt.calls[i].a2)

\* The caller's form of a path as received.
CallerForm(p) == IF BeginsWithProcSelf(p) THEN PidPath(aIn.cred.pid, p.rest) ELSE p

\* calls[i] is a successful resolution and q is the caller's form of the path it
\* was given.
ResolvedBy(i, q) ==
    /\ i >= 1
    /\ aSt.calls[i].op = "resolve"
    /\ aSt.calls[i].err = NoErr
    /\ q = CallerForm(aSt.calls[i].a1)
    /\ ~BeginsWithProcSelf(q)

\* The one path of a single-path request.
RequestPath ==
    LET v == aSt.ReqMsg.Payload.v
        t == aSt.ReqMsg.Type
    IN  CASE t = "LookupRequest" -> v.Entry
          [] t \in {"OpenFileRequest", "ReadFileRequest", "WriteFileRequest"} -> v.File
          [] t = "ReadDirRequest" -> v.Dir
          [] OTHER -> EmptyPath

\* C10 as the code has it: mount source and target, umount target and chown
\* target are resolved to the caller's /proc/<pid> form right before the
\* syscall, and a rollback unmount goes to the resolved target of a mount of
\* the batch; Lookup, OpenFile, ReadFile, WriteFile, ReadDir and MountInode
\* issue their syscall on the path as received.
C10_ResolvedInMountUmountChown ==
    \A i \in 1..Len(aSt.calls) :
        LET c == aSt.calls[i]
        IN  /\ c.op = "mount" => ResolvedBy(i - 2, c.a1) /\ ResolvedBy(i - 1, c.a2)
            /\ c.op = "chown" => ResolvedBy(i - 1, c.a1)
            /\ c.op = "umount" /\ c.role = "main" => ResolvedBy(i - 1, c.a1)
            /\ c.op = "umount" /\ c.role = "rollback" =>
                  /\ ~BeginsWithProcSelf(c.a1)
                  /\ \E j \in 1..(i - 1) :
                        /\ aSt.calls[j].op = "mount"
                        /\ aSt.calls[j].err = NoErr
                        /\ aSt.calls[j].a2 = c.a1
            /\ c.op \in {"stat", "open", "read", "write", "readdir"} => c.a1 = RequestPath
            /\ c.op = "inode" =>
                  \E k \in 1..Len(aSt.ReqMsg.Payload.v.Mountpoints) :
                      c.a1 = aSt.ReqMsg.Payload.v.Mountpoints[k]

\* A mount was issued with a /proc/self source rewritten for the caller.
C10_Witness ==
    /\ \E i \in 1..Len(aSt.calls) :
          /\ aSt.calls[i].op = "mount"
          /\ aSt.calls[i].a1 = PidPath(4242, "ns")
    /\ \E i \in 1..Len(aSt.calls) :
          /\ aSt.calls[i].op = "resolve"
          /\ aSt.calls[i].a1 = SelfPath("ns")

IsMountCall(c) == c.op = "mount" /\ c.role = "main"

IsRollbackCall(c) == c.role = "rollback"

\* The mount batch as received, once its handler has returned.
MountBatchReturned ==
    /\ HandlerReturned
    /\ aSt.ReqMsg.Type = "MountSyscallRequest"
    /\ ~aSt.crashed

\* The targets of entries j, j-1, .., 1 of the batch that are not remounts, in
\* the caller's form.
RECURSIVE RollbackTargets(_, _)
RollbackTargets(payload, j) ==
    IF j < 1 THEN <<>>
    ELSE IF "MS_REMOUNT" \in payload[j].Flags THEN RollbackTargets(payload, j - 1)
    ELSE <<CallerForm(payload[j].Target)>> \o RollbackTargets(payload, j - 1)

\* C21: the mounts of a batch are attempted in submission order and stop at the
\* first entry that fails (its resolution or its mount); the targets of the
\* entries mounted before it are then unmounted in reverse submission order,
\* remounts excepted, and nothing else is unmounted.
C21_MountOrderAndRollback ==
    MountBatchReturned =>
        LET payload == aSt.ReqMsg.Payload.v
            mounts == SelectSeq(aSt.calls, IsMountCall)
            rollbacks == SelectSeq(aSt.calls, IsRollbackCall)
        IN  /\ Len(mounts) <= Len(payload)
            /\ \A k \in 1..Len(mounts) :
                  /\ mounts[k].a1 = CallerForm(payload[k].Source)
                  /\ mounts[k].a2 = CallerForm(payload[k].Target)
                  /\ k < Len(mounts) => mounts[k].err = NoErr
            /\ \A i \in FailedSteps : \A j \in (i + 1)..Len(aSt.calls) :
                  aSt.calls[j].role # "main"
            /\ \A i, j \in 1..Len(aSt.calls) :
                  IsRollbackCall(aSt.calls[i]) /\ aSt.calls[j].role = "main" => j < i
            /\ \A n \in 1..Len(rollbacks) : rollbacks[n].op = "umount"
            /\ [n \in 1..Len(rollbacks) |-> rollbacks[n].a1] =
                  IF FailedSteps # {} /\ aSt.calls[FirstFailedStep].op # "adjust"
                  THEN RollbackTargets(payload, MountsDone)
                  ELSE <<>>

\* Two mounts succeeded, the third failed, and the two targets were unmounted
\* last first.
C21_Witness ==
    /\ MountBatchReturned
    /\ MountsDone = 2
    /\ Len(SelectSeq(aSt.calls, IsMountCall)) = 3
    /\ SelectSeq(aSt.calls, IsMountCall)[3].err = "ENOENT"
    /\ Len(SelectSeq(aSt.calls, IsRollbackCall)) = 2
    /\ [n \in 1..2 |-> SelectSeq(aSt.calls, IsRollbackCall)[n].a1] =
          <<AbsPath("/m2"), AbsPath("/m1")>>

\* An entry of the mount batch failed: its resolution or its mount.
MountEntryFailed ==
    /\ MountBatchReturned
    /\ FailedSteps # {}
    /\ aSt.calls[FirstFailedStep].op \in {"resolve", "mount"}

\* C22: when an entry of a mount batch fails, the response is an ErrorResponse
\* with the error of that entry, whatever the rollback unmounts return, and
\* every rollback unmount is issued even after one of them has failed.
C22_MountErrorIsTheEntrysError ==
    MountEntryFailed =>
        /\ IsErrorResponseOf(aSt.ResMsg, aSt.calls[FirstFailedStep].err)
        /\ Len(SelectSeq(aSt.calls, IsRollbackCall)) =
              Len(RollbackTargets(aSt.ReqMsg.Payload.v, MountsDone))
        /\ \A i \in 1..Len(aSt.calls) :
              IsRollbackCall(aSt.calls[i]) /\ aSt.calls[i].err # NoErr =>
                  aSt.ResMsg.Payload.v = aSt.calls[FirstFailedStep].err

\* The third mount failed with ENOENT, the first rollback unmount with EBUSY;
\* the second rollback unmount was issued and the response holds ENOENT.
C22_Witness ==
    /\ MountEntryFailed
    /\ IsErrorResponseOf(aSt.ResMsg, "ENOENT")
    /\ Len(SelectSeq(aSt.calls, IsRollbackCall)) = 2
    /\ SelectSeq(aSt.calls, IsRollbackCall)[1].err = "EBUSY"
    /\ SelectSeq(aSt.calls, IsRollbackCall)[2].err = NoErr

\* The entry of the batch that the mount call at index i of the calls is for.
EntryOfMountCall(i) ==
    aSt.ReqMsg.Payload.v[Cardinality({j \in 1..i : IsMountCall(aSt.calls[j])})]

\* C23: before the mount of an overlay entry, at whatever position of the
\* batch, the agent has adjusted its personality to the batch header; when
\* the adjustment fails no mount is issued and the response is an
\* ErrorResponse.
C23_OverlayMountsAdjusted ==
    MountBatchReturned =>
        /\ \A i \in 1..Len(aSt.calls) :
              IsMountCall(aSt.calls[i]) /\ EntryOfMountCall(i).FsType = "overlay" =>
                  /\ \E j \in 1..(i - 1) :
                        aSt.calls[j].op = "adjust" /\ aSt.calls[j].err = NoErr
                  /\ aSt.w.persona = aSt.ReqMsg.Payload.v[1].Header
        /\ \A j \in 1..Len(aSt.calls) :
              aSt.calls[j].op = "adjust" /\ aSt.calls[j].err # NoErr =>
                  /\ SelectSeq(aSt.calls, IsMountCall) = <<>>
                  /\ aSt.ResMsg.Type = "ErrorResponse"

IsUmountCall(c) == c.op = "umount" /\ c.role = "main"

UmountBatchReturned ==
    /\ HandlerReturned
    /\ aSt.ReqMsg.Type = "UmountSyscallRequest"

\* C24: the unmounts of a batch are issued in submission order and stop at the
\* first one that fails; the unmounts done before it stay done and nothing is
\* mounted again; the response is then an ErrorResponse with that unmount's
\* error, and it is UmountSyscallResponse only when every entry was unmounted.
C24_UmountOrderNoRollback ==
    UmountBatchReturned =>
        LET payload == aSt.ReqMsg.Payload.v
            umounts == SelectSeq(aSt.calls, IsUmountCall)
            done == Cardinality({k \in 1..Len(umounts) : umounts[k].err = NoErr})
        IN  /\ Len(umounts) <= Len(payload)
            /\ \A k \in 1..Len(umounts) :
                  /\ umounts[k].a1 = CallerForm(payload[k].Target)
                  /\ k < Len(umounts) => umounts[k].err = NoErr
            /\ \A i \in FailedSteps : i = Len(aSt.calls)
            /\ \A i \in 1..Len(aSt.calls) :
                  aSt.calls[i].op # "mount" /\ aSt.calls[i].role # "rollback"
            /\ Len(aSt.w.mtab) = Len(InitWorld.mtab) - done
            /\ \A k \in 1..Len(umounts) :
                  umounts[k].err = NoErr => ~HasMount(aSt.w.mtab, umounts[k].a1)
            /\ Len(umounts) > 0 /\ umounts[Len(umounts)].err # NoErr =>
                  IsErrorResponseOf(aSt.ResMsg, umounts[Len(umounts)].err)
            /\ aSt.ResMsg.Type = "UmountSyscallResponse" => done = Len(payload)

\* The first unmount of a batch succeeded, the second failed: the first mount
\* point stays unmounted and the response holds the second one's error.
C24_Witness ==
    /\ UmountBatchReturned
    /\ Len(SelectSeq(aSt.calls, IsUmountCall)) = 2
    /\ SelectSeq(aSt.calls, IsUmountCall)[1].err = NoErr
    /\ SelectSeq(aSt.calls, IsUmountCall)[2].err = "EINVAL"
    /\ Len(aSt.ReqMsg.Payload.v) = 3
    /\ aSt.w.mtab = <<>>
    /\ IsErrorResponseOf(aSt.ResMsg, "EINVAL")


\* The agent process is over: Init has returned or the process has died.
AgentOver == aPc \in {"sent", "crashed", "done"}

\* processRequest has returned to Init, or the agent died inside it.
ProcessRequestOver == aPc \in {"reply", "sent", "crashed", "done"}

\* C32: for every envelope the agent can decode, whatever its variant and its
\* payload, processRequest does not die and leaves ResMsg set when it returns
\* nil, so that Init has a response to encode.
C32_ResMsgSetOnNilReturn ==
    ProcessRequestOver /\ aIn.cred.ok /\ aIn.req.Type # "none" =>
        /\ ~aSt.crashed
        /\ aPc = "reply" /\ aSt.perr = NoErr => aSt.ResMsg.Type # "none"

\* C28: the agent handles one request: once it is over it has written one
\* response envelope on the pipe, the encoding of its ResMsg, and when
\* processRequest returned an error that response is an ErrorResponse wrapping
\* the error.
C28_OneResponsePerRequest ==
    AgentOver =>
        /\ ~aSt.crashed
        /\ aOut # NoWire
        /\ aOut = MarshalMsg(aSt.ResMsg)
        /\ aSt.perr # NoErr => IsErrorResponseOf(aSt.ResMsg, aSt.perr)

\* The /proc/<pid> paths among the arguments of the agent's calls.
PidsUsed ==
    {aSt.calls[i].a1.pid : i \in {j \in 1..Len(aSt.calls) : aSt.calls[j].a1.pfx = "pid"}}
    \cup {aSt.calls[i].a2.pid : i \in {j \in 1..Len(aSt.calls) : aSt.calls[j].a2.pfx = "pid"}}

\* C11: the Pid of the agent's event is the pid of the SCM_CREDENTIALS message
\* (the caller the master's event was created for), read before the request is
\* decoded, never the agent's own pid or a field of the request; when the
\* credentials cannot be read no operation is executed.
C11_PidFromCredentials ==
    aPc # "recv" =>
        /\ aIn.cred.ok => aSt.Pid = aIn.cred.pid /\ PidsUsed \subseteq {aIn.cred.pid}
        /\ ~aIn.cred.ok =>
              /\ aSt.calls = <<>>
              /\ aSt.ReqMsg.Type = "none"
              /\ aSt.perr = "Error decoding received process credentials."

\* A chown was issued for the second caller on its own /proc/<pid> path.
C11_Witness ==
    /\ aPc = "done"
    /\ aSt.Pid = 4243
    /\ \E i \in 1..Len(aSt.calls) :
          aSt.calls[i].op = "chown" /\ aSt.calls[i].a1 = PidPath(4243, "ns")

\* ------------------------------------------------------ master: SendRequest
\* SendRequest runs in three stretches, separated by the two points where it
\* blocks on the helpers: the wait for the first child and the read of the
\* response.  o is the outcome of the calls whose error the code checks.

StartOutcomes == {"sockpairFail", "sockoptFail", "startFail", "copyFail", "ok"}

\* From nsenterStarted() to the copy of the netlink config: the calls made.
SendStartSteps(o) ==
    CASE o = "sockpairFail" -> <<"nsenterStarted", "NewSockPair:err", "nsenterEnded">>
      [] o = "sockoptFail" -> <<"nsenterStarted", "NewSockPair", "SetsockoptInt:err">>
      [] o = "startFail" ->
            <<"nsenterStarted", "NewSockPair", "SetsockoptInt", "cmd.Start:err",
              "childPipe.Close", "nsenterEnded">>
      [] o = "copyFail" ->
            <<"nsenterStarted", "NewSockPair", "SetsockoptInt", "cmd.Start",
              "childPipe.Close", "io.Copy:err", "nsenterReapReq", "nsenterEnded">>
      [] o = "ok" ->
            <<"nsenterStarted", "NewSockPair", "SetsockoptInt", "cmd.Start",
              "childPipe.Close", "io.Copy">>

\* SendRequest on one socket pair kept for all events, instead of a new one.
SendStartEventSharedPair(e, o, pair) ==
    IF o = "sockpairFail" THEN [e EXCEPT !.pc = "returned", !.ret = "err"]
    ELSE IF o = "sockoptFail"
    THEN [e EXCEPT !.parentPipe = "open", !.childPipe = "open", !.pair = 1,
                   !.pc = "returned", !.ret = "err"]
    ELSE IF o \in {"startFail", "copyFail"}
    THEN [e EXCEPT !.parentPipe = "open", !.childPipe = "closed", !.pair = 1,
                   !.pc = "returned", !.ret = "err"]
    ELSE [e EXCEPT !.parentPipe = "open", !.childPipe = "closed", !.pair = 1,
                   !.pc = "waitFirst"]

\* The same stretch with the master keeping its copy of the child end open once
\* the first child is launched.
SendStartEventKeepsChildPipe(e, o, pair) ==
    IF o = "sockpairFail" THEN [e EXCEPT !.pc = "returned", !.ret = "err"]
    ELSE IF o = "sockoptFail"
    THEN [e EXCEPT !.parentPipe = "open", !.childPipe = "open", !.pair = pair,
                   !.pc = "returned", !.ret = "err"]
    ELSE IF o \in {"startFail", "copyFail"}
    THEN [e EXCEPT !.parentPipe = "open", !.childPipe = "open", !.pair = pair,
                   !.pc = "returned", !.ret = "err"]
    ELSE [e EXCEPT !.parentPipe = "open", !.childPipe = "open", !.pair = pair,
                   !.pc = "waitFirst"]

\* The event after that stretch; pair is the socket pair NewSockPair returned.
SendStartEvent(e, o, pair) ==
    IF o = "sockpairFail" THEN [e EXCEPT !.pc = "returned", !.ret = "err"]
    ELSE IF o = "sockoptFail"
    THEN [e EXCEPT !.parentPipe = "open", !.childPipe = "open", !.pair = pair,
                   !.pc = "returned", !.ret = "err"]
    ELSE IF o \in {"startFail", "copyFail"}
    THEN [e EXCEPT !.parentPipe = "open", !.childPipe = "closed", !.pair = pair,
                   !.pc = "returned", !.ret = "err"]
    ELSE [e EXCEPT !.parentPipe = "open", !.childPipe = "closed", !.pair = pair,
                   !.pc = "waitFirst"]

\* secondWaitFail: the wait on the second child returns an error (the child was
\* reaped by someone else), which SendRequest ignores; nothing else fails.
HandshakeOutcomes ==
    {"waitFail", "statusFail", "decodeFail", "findFirstFail", "findGrandFail",
     "credFail", "marshalFail", "writeFail", "secondWaitFail", "ok"}

\* From the wait on the first child to the write of the request (and the return
\* of an async request): the calls made.
SendHandshakeSteps(o, async) ==
    LET upToPid == <<"cmd.Process.Wait", "Decode(pid)">>
        upToProc == upToPid \o <<"FindProcess(pid_first)", "firstChildProcess.Wait",
                                 "FindProcess(pid)">>
    IN  CASE o = "waitFail" -> <<"cmd.Process.Wait:err", "nsenterReapReq", "nsenterEnded">>
          [] o = "statusFail" -> <<"cmd.Process.Wait", "nsenterReapReq", "nsenterEnded">>
          [] o = "decodeFail" -> <<"cmd.Process.Wait", "Decode(pid):err", "nsenterEnded">>
          [] o = "findFirstFail" -> upToPid \o <<"FindProcess(pid_first):err", "nsenterEnded">>
          [] o = "findGrandFail" ->
                upToPid \o <<"FindProcess(pid_first)", "firstChildProcess.Wait",
                             "FindProcess(pid):err", "nsenterEnded">>
          [] o = "credFail" -> upToProc \o <<"Sendmsg(cred):err", "nsenterReapReq">>
          [] o = "marshalFail" ->
                upToProc \o <<"Sendmsg(cred)", "Marshal(req):err", "nsenterReapReq",
                              "nsenterEnded">>
          [] o = "writeFail" ->
                upToProc \o <<"Sendmsg(cred)", "Marshal(req)", "Write(req):err",
                              "nsenterReapReq", "nsenterEnded">>
          [] o = "secondWaitFail" ->
                upToPid \o <<"FindProcess(pid_first)", "firstChildProcess.Wait:err",
                             "FindProcess(pid)", "Sendmsg(cred)", "Marshal(req)",
                             "Write(req)">>
          [] o = "ok" -> upToProc \o <<"Sendmsg(cred)", "Marshal(req)", "Write(req)">>

\* The same stretch writing the request before the credentials.
SendHandshakeWritesRequestFirst(e, o) ==
    LET cred == [kind |-> "cred", pid |-> e.Pid, wire |-> NoWire, from |-> 0, attr |-> <<>>]
        req == [kind |-> "request", pid |-> 0, wire |-> MarshalMsg(e.ReqMsg), from |-> 0,
                attr |-> <<>>]
    IN  IF o \in {"marshalFail", "writeFail"} THEN <<cred>>
        ELSE IF o \in {"secondWaitFail", "ok"} THEN <<req, cred>>
        ELSE <<>>

\* What that stretch writes on the pipe: the credentials, then the request.
SendHandshakeWrites(e, o) ==
    LET cred == [kind |-> "cred", pid |-> e.Pid, wire |-> NoWire, from |-> 0, attr |-> <<>>]
        req == [kind |-> "request", pid |-> 0, wire |-> MarshalMsg(e.ReqMsg), from |-> 0,
                attr |-> <<>>]
    IN  IF o \in {"marshalFail", "writeFail"} THEN <<cred>>
        ELSE IF o \in {"secondWaitFail", "ok"} THEN <<cred, req>>
        ELSE <<>>

\* SendRequest giving up when the wait on the second child returns an error.
SendHandshakeEventSecondWaitAborts(e, o) ==
    LET haveProc == o \in {"credFail", "marshalFail", "writeFail", "ok"}
        e1 == IF haveProc THEN [e EXCEPT !.Process = "set"] ELSE e
    IN  IF o # "ok" THEN [e1 EXCEPT !.pc = "returned", !.ret = "err"]
        ELSE IF e.async THEN [e1 EXCEPT !.pc = "returned", !.ret = "nil"]
        ELSE [e1 EXCEPT !.pc = "waitResp"]

SendHandshakeEvent(e, o) ==
    LET haveProc == o \in {"credFail", "marshalFail", "writeFail", "secondWaitFail", "ok"}
        e1 == IF haveProc THEN [e EXCEPT !.Process = "set"] ELSE e
    IN  IF o \notin {"secondWaitFail", "ok"} THEN [e1 EXCEPT !.pc = "returned", !.ret = "err"]
        ELSE IF e.async THEN [e1 EXCEPT !.pc = "returned", !.ret = "nil"]
        ELSE [e1 EXCEPT !.pc = "waitResp"]

\* The return of a synchronous request handing the grand-child to the reaper
\* whatever processResponse returned.
SendFinishStepsAlwaysReap(ierr) ==
    IF ierr # NoErr
    THEN <<"processResponse:err", "Shutdown(SHUT_WR)", "nsenterReapReq", "nsenterEnded">>
    ELSE <<"processResponse", "Shutdown(SHUT_WR)", "nsenterReapReq", "nsenterEnded">>

\* The return of a synchronous request that never waits on the grand-child.
SendFinishStepsNoGrandWait(ierr) ==
    IF ierr # NoErr
    THEN <<"processResponse:err", "Shutdown(SHUT_WR)", "nsenterReapReq", "nsenterEnded">>
    ELSE <<"processResponse", "Shutdown(SHUT_WR)", "nsenterEnded">>

\* The return of a synchronous request shutting the pipe down before it reads
\* the response.
SendFinishStepsShutdownFirst(ierr) ==
    IF ierr # NoErr
    THEN <<"Shutdown(SHUT_WR)", "processResponse:err", "nsenterReapReq", "nsenterEnded">>
    ELSE <<"Shutdown(SHUT_WR)", "processResponse", "Process.Wait", "nsenterEnded">>

\* From processResponse to the return of a synchronous request; ierr is what
\* processResponse returned.
SendFinishSteps(ierr) ==
    IF ierr # NoErr
    THEN <<"processResponse:err", "Shutdown(SHUT_WR)", "nsenterReapReq", "nsenterEnded">>
    ELSE <<"processResponse", "Shutdown(SHUT_WR)", "Process.Wait", "nsenterEnded">>

SendFinishEvent(e, r) ==
    [e EXCEPT !.ResMsg = r.ResMsg, !.parentPipe = "shutwr", !.pc = "returned",
              !.ret = IF r.err # NoErr THEN "err" ELSE "nil"]

\* ------------------------------------------------- master: TerminateRequest

TerminateOutcomes == {"shutdownFail", "killFail", "ok"}

\* TerminateRequest: the calls made (deferred calls run at the return, last
\* deferred first).
TerminateSteps(e, o) ==
    IF e.Process = "nil" THEN <<"nsenterEnded">>
    ELSE CASE o = "shutdownFail" -> <<"Shutdown(SHUT_WR):err", "nsenterReapReq", "nsenterEnded">>
           [] o = "killFail" ->
                 <<"Shutdown(SHUT_WR)", "Process.Kill:err", "nsenterReapReq", "nsenterEnded">>
           [] o = "ok" -> <<"Shutdown(SHUT_WR)", "Process.Kill", "Process.Wait", "nsenterEnded">>

\* TerminateRequest returning nil whatever its calls returned.
TerminateEventAlwaysNil(e, o) ==
    LET e1 == [e EXCEPT !.nTerm = @ + 1, !.tret = "nil"]
    IN  IF e.Process = "nil" THEN e1
        ELSE IF o = "shutdownFail" THEN e1
        ELSE IF o = "killFail" THEN [e1 EXCEPT !.parentPipe = "shutwr"]
        ELSE [e1 EXCEPT !.parentPipe = "shutwr", !.Process = "nil"]

TerminateEvent(e, o) ==
    LET e1 == [e EXCEPT !.nTerm = @ + 1]
    IN  IF e.Process = "nil" THEN [e1 EXCEPT !.tret = "nil"]
        ELSE IF o = "shutdownFail" THEN [e1 EXCEPT !.tret = "err"]
        ELSE IF o = "killFail" THEN [e1 EXCEPT !.parentPipe = "shutwr", !.tret = "err"]
        ELSE [e1 EXCEPT !.parentPipe = "shutwr", !.Process = "nil", !.tret = "nil"]

ReceiveResponse(e) == e.ResMsg

\* ------------------------------------------------- the fabric specification

\* Messages on a socket pair; from is the event on whose behalf a message was
\* written (history, not data).
\* attr is the value of the NsPaths attribute of the netlink message.
NetlinkMsg(e) ==
    [kind |-> "netlink", pid |-> 0, wire |-> NoWire, from |-> 0, attr |-> NsPathsAttr(e)]

PidMsg(p) == [kind |-> "pid", pid |-> p, wire |-> NoWire, from |-> 0, attr |-> <<>>]

ResponseMsg(w) == [kind |-> "response", pid |-> 0, wire |-> w, from |-> 0, attr |-> <<>>]

From(q, e) == [i \in 1..Len(q) |-> [q[i] EXCEPT !.from = e]]

Kinds(q) == [i \in 1..Len(q) |-> q[i].kind]

HasKind(q, k) == \E i \in 1..Len(q) : q[i].kind = k

FirstOfKind(q, k) == q[CHOOSE i \in 1..Len(q) : q[i].kind = k /\ \A j \in 1..(i - 1) : q[j].kind # k]

\* q without its first message of kind k.
WithoutKind(q, k) ==
    IF ~HasKind(q, k) THEN q
    ELSE LET n == CHOOSE i \in 1..Len(q) : q[i].kind = k /\ \A j \in 1..(i - 1) : q[j].kind # k
         IN  SubSeq(q, 1, n - 1) \o SubSeq(q, n + 1, Len(q))

\* Pid of the grand-child of event e.
GrandPid(e) == 100 + e

FabricInit ==
    /\ \E k \in FabricRequestKinds, a \in BOOLEAN, ns \in NamespaceLists :
          ev = [e \in Events |-> NewEvent(4242, ns, a, k)]
    /\ hp = [e \in Events |-> NoHelpers]
    /\ pipes = [e \in Events |-> EmptyPipe]
    /\ reaper = [started |-> 0, ended |-> 0, reapReq |-> 0]
    /\ log = [e \in Events |-> <<>>]
    /\ got = [e \in Events |-> NothingGot]
    /\ AgentIdle
    /\ HandlerIdle
    /\ DaemonIdle

\* SendRequest, from its entry to the copy of the netlink config.  The socket
\* pair NewSockPair returns is a new one: it is named after the event.
SendRequest_Start(e) ==
    /\ ev[e].pc = "new"
    /\ \E o \in StartOutcomes :
          LET e1 == SendStartEvent(ev[e], o, e)
          IN  /\ ev' = [ev EXCEPT ![e] = e1]
              /\ log' = [log EXCEPT ![e] = @ \o SendStartSteps(o)]
              /\ reaper' = ReaperAfter(reaper, SendStartSteps(o))
              /\ hp' = [hp EXCEPT ![e].first = IF o \in {"copyFail", "ok"} THEN "running" ELSE @]
              /\ pipes' = IF o = "ok"
                          THEN [pipes EXCEPT ![e1.pair].toChild = @ \o From(<<NetlinkMsg(ev[e])>>, e)]
                          ELSE pipes
              /\ got' = IF o = "ok"
                        THEN [got EXCEPT ![e].wrote = @ \o Kinds(<<NetlinkMsg(ev[e])>>)]
                        ELSE got
    /\ UNCHANGED nonFabricVars

\* nsexec in the first child: with the config it enters the namespaces, forks
\* the second child and the grand-child, reports their pids and exits with
\* success; without it, or when entering fails, it exits with an error status.
\* The helpers of an event hold the child end of the pair its SendRequest made.
Nsexec(e) ==
    /\ hp[e].first = "running"
    /\ \E ok \in BOOLEAN :
          /\ ok => HasKind(pipes[ev[e].pair].toChild, "netlink")
          /\ IF ok
             THEN /\ hp' = [hp EXCEPT ![e] = [first |-> "exited0", second |-> "exited",
                                              grand |-> "running", agentPid |-> GrandPid(e)]]
                  /\ pipes' = [pipes EXCEPT
                                 ![ev[e].pair].toChild = WithoutKind(@, "netlink"),
                                 ![ev[e].pair].toMaster = @ \o From(<<PidMsg(GrandPid(e))>>, e)]
             ELSE /\ hp' = [hp EXCEPT ![e].first = "exited1"]
                  /\ pipes' = pipes
    /\ UNCHANGED <<ev, reaper, log, got, nonFabricVars>>

\* SendRequest, from the wait on the first child to the write of the request.
\* The decoder of the pid message reads ahead: it takes what the pair holds for
\* the master into its buffer, and what it does not decode is read by no one.
SendRequest_Handshake(e) ==
    /\ ev[e].pc = "waitFirst"
    /\ hp[e].first \in {"exited0", "exited1"}
    /\ \E o \in HandshakeOutcomes :
          LET P == ev[e].pair
              readsPid == o \notin {"waitFail", "statusFail", "decodeFail"}
          IN  /\ hp[e].first = "exited1" => o \in {"waitFail", "statusFail"}
              /\ hp[e].first = "exited0" => o # "statusFail"
              /\ readsPid => HasKind(pipes[P].toMaster, "pid")
              /\ ev' = [ev EXCEPT ![e] = SendHandshakeEvent(@, o)]
              /\ log' = [log EXCEPT ![e] = @ \o SendHandshakeSteps(o, ev[e].async)]
              /\ reaper' = ReaperAfter(reaper, SendHandshakeSteps(o, ev[e].async))
              /\ hp' = [hp EXCEPT
                          ![e].first = IF o = "waitFail" THEN @ ELSE "reaped",
                          ![e].second = IF o \in {"waitFail", "statusFail", "decodeFail",
                                                  "findFirstFail"}
                                        THEN @
                                        ELSE IF o = "secondWaitFail" THEN "reapedElsewhere"
                                        ELSE "reaped"]
              /\ got' = [got EXCEPT
                           ![e].pid = IF readsPid
                                      THEN FirstOfKind(pipes[P].toMaster, "pid").from
                                      ELSE @,
                           ![e].lost = IF readsPid
                                       THEN Len(WithoutKind(pipes[P].toMaster, "pid"))
                                       ELSE @,
                           ![e].wrote = @ \o Kinds(SendHandshakeWrites(ev[e], o))]
              /\ pipes' = [pipes EXCEPT
                             ![P].toMaster = IF o \in {"waitFail", "statusFail"} THEN @
                                             ELSE IF readsPid THEN <<>>
                                             ELSE WithoutKind(@, "pid"),
                             ![P].toChild = @ \o From(SendHandshakeWrites(ev[e], o), e)]
    /\ UNCHANGED nonFabricVars

\* The grand-child: Init of "sysbox-fs nsenter" with the credentials and the
\* request on its pipe; it replies (unless it dies) and exits.
Agent(e) ==
    /\ hp[e].grand = "running"
    /\ HasKind(pipes[ev[e].pair].toChild, "cred")
    /\ HasKind(pipes[ev[e].pair].toChild, "request")
    /\ LET P == ev[e].pair
           cred == FirstOfKind(pipes[P].toChild, "cred")
           req == FirstOfKind(pipes[P].toChild, "request")
       IN  \E r \in {AgentRun([cred |-> [ok |-> TRUE, pid |-> cred.pid], req |-> req.wire,
                                env |-> DefaultEnv])} :
              /\ pipes' = [pipes EXCEPT
                             ![P].toChild = WithoutKind(WithoutKind(@, "cred"), "request"),
                             ![P].toMaster = IF r.out.Type = "none" THEN @
                                             ELSE @ \o From(<<ResponseMsg(r.out)>>, e)]
              /\ got' = [got EXCEPT ![e].cred = cred.from, ![e].req = req.from]
    /\ hp' = [hp EXCEPT ![e].grand = "exited"]
    /\ UNCHANGED <<ev, reaper, log, nonFabricVars>>

\* SendRequest of a synchronous event, from processResponse to its return: the
\* read returns the first message its pair holds for the master, or the end of
\* file once no helper holds the child end any more.
SendRequest_Response(e) ==
    /\ ev[e].pc = "waitResp"
    /\ LET P == ev[e].pair
           has == Len(pipes[P].toMaster) > 0 /\ Head(pipes[P].toMaster).kind = "response"
           wire == IF has THEN Head(pipes[P].toMaster).wire ELSE NoWire
           r == processResponse(ev[e].ResMsg, wire)
       IN  /\ hp[e].grand = "exited"
           /\ Len(pipes[P].toMaster) > 0 \/ ev[e].childPipe = "closed"
           /\ ev' = [ev EXCEPT ![e] = SendFinishEvent(@, r)]
           /\ log' = [log EXCEPT ![e] = @ \o SendFinishSteps(r.err)]
           /\ reaper' = ReaperAfter(reaper, SendFinishSteps(r.err))
           /\ hp' = [hp EXCEPT ![e].grand = IF r.err = NoErr THEN "reaped" ELSE @]
           /\ got' = [got EXCEPT
                        ![e].res = IF has THEN Head(pipes[P].toMaster).from ELSE @,
                        ![e].first = IF Len(pipes[P].toMaster) > 0
                                     THEN Head(pipes[P].toMaster).kind ELSE "eof"]
           /\ pipes' = [pipes EXCEPT ![P].toMaster = IF Len(@) > 0 THEN Tail(@) ELSE @]
    /\ UNCHANGED nonFabricVars

\* TerminateRequest on an event whose SendRequest has returned.
TerminateRequest(e) ==
    /\ ev[e].pc = "returned"
    /\ ev[e].nTerm < MaxTerminate
    /\ \E o \in TerminateOutcomes :
          /\ ev[e].Process = "nil" => o = "ok"
          /\ o = "ok" /\ ev[e].Process # "nil" => hp[e].grand \in {"running", "exited"}
          /\ ev' = [ev EXCEPT ![e] = TerminateEvent(@, o)]
          /\ log' = [log EXCEPT ![e] = @ \o TerminateSteps(ev[e], o)]
          /\ reaper' = ReaperAfter(reaper, TerminateSteps(ev[e], o))
          /\ hp' = [hp EXCEPT ![e].grand = IF o = "ok" /\ ev[e].Process # "nil"
                                          THEN "reaped" ELSE @]
    /\ UNCHANGED <<pipes, got, nonFabricVars>>

Next ==
    \/ \E e \in Events : SendRequest_Start(e)
    \/ \E e \in Events : Nsexec(e)
    \/ \E e \in Events : SendRequest_Handshake(e)
    \/ \E e \in Events : Agent(e)
    \/ \E e \in Events : SendRequest_Response(e)
    \/ \E e \in Events : TerminateRequest(e)

Spec == FabricInit /\ [][Next]_vars

\* Inside SendRequest the master's goroutine runs whenever it is not blocked,
\* and every helper process runs to its exit; nothing obliges a caller to call
\* SendRequest or TerminateRequest.
FabricFairness ==
    \A e \in Events :
        /\ WF_vars(Nsexec(e))
        /\ WF_vars(SendRequest_Handshake(e))
        /\ WF_vars(Agent(e))
        /\ WF_vars(SendRequest_Response(e))

\* The events are synchronous requests.
LiveInit == FabricInit /\ \A e \in Events : ~ev[e].async

LiveSpec == LiveInit /\ [][Next]_vars /\ FabricFairness

\* --------------------------------------- concurrent SendRequest calls

\* Number of events whose SendRequest calls run concurrently.
MaxConc == 2

\* Each event is a synchronous request of its own caller process.
ConcInit ==
    /\ \E ks \in [(1..MaxConc) -> {"read", "lookupMissing"}] :
          ev = [e \in (1..MaxConc) |-> NewEvent(4241 + e, AllNSs, FALSE, ks[e])]
    /\ hp = [e \in (1..MaxConc) |-> NoHelpers]
    /\ pipes = [e \in (1..MaxConc) |-> EmptyPipe]
    /\ reaper = [started |-> 0, ended |-> 0, reapReq |-> 0]
    /\ log = [e \in (1..MaxConc) |-> <<>>]
    /\ got = [e \in (1..MaxConc) |-> NothingGot]
    /\ AgentIdle
    /\ HandlerIdle
    /\ DaemonIdle

ConcNext ==
    \/ \E e \in (1..MaxConc) : SendRequest_Start(e)
    \/ \E e \in (1..MaxConc) : Nsexec(e)
    \/ \E e \in (1..MaxConc) : SendRequest_Handshake(e)
    \/ \E e \in (1..MaxConc) : Agent(e)
    \/ \E e \in (1..MaxConc) : SendRequest_Response(e)

ConcSpec == ConcInit /\ [][ConcNext]_vars

\* ---------------------------------------------- properties of the fabric

\* SendRequest has returned and TerminateRequest has not been called yet.
JustReturned(e) == ev[e].pc = "returned" /\ ev[e].nTerm = 0

\* C1: every SendRequest on a synchronous event has called nsenterStarted()
\* exactly once and, on every return path, nsenterEnded() exactly once by the
\* time it returns, so that Started == Ended once the requests have returned.
C1_StartedEndedBalanced ==
    \A e \in Events :
        ~ev[e].async /\ JustReturned(e) =>
            /\ Count(log[e], "nsenterStarted") = 1
            /\ Count(log[e], "nsenterEnded") = 1
            /\ reaper.started = reaper.ended

\* The event is finished: SendRequest returned (synchronous), TerminateRequest
\* returned (async).
EventFinished(e) == ev[e].pc = "returned" /\ (ev[e].async => ev[e].nTerm >= 1)

\* C5: when an event is finished, after a successful or a failed SendRequest,
\* the master's end of the socket pair and its copy of the child end are closed.
C5_PipeEndsClosed ==
    \A e \in Events :
        EventFinished(e) =>
            /\ ev[e].parentPipe \in {"none", "closed"}
            /\ ev[e].childPipe \in {"none", "closed"}

\* C6: a successful SendRequest on an async event returns without reading the
\* pipe and without nsenterEnded, leaving ResMsg unset; one TerminateRequest
\* then kills the grand-child, waits on it and calls nsenterEnded once, so that
\* Started == Ended and ReceiveResponse returns no response.
C6_AsyncThenTerminate ==
    \A e \in Events :
        ev[e].async /\ ev[e].pc = "returned" /\ ev[e].ret = "nil" =>
            /\ Count(log[e], "processResponse") = 0
            /\ ReceiveResponse(ev[e]).Type = "none"
            /\ ev[e].nTerm = 0 => Count(log[e], "nsenterEnded") = 0
            /\ ev[e].nTerm = 1 =>
                  /\ Count(log[e], "Process.Kill") = 1
                  /\ Count(log[e], "Process.Wait") = 1
                  /\ hp[e].grand = "reaped"
                  /\ Count(log[e], "nsenterEnded") = 1
                  /\ reaper.started = reaper.ended

\* The calls of SendRequest that fail with a transport error once the first
\* child has been launched.
TransportErrorSteps ==
    {"io.Copy:err", "cmd.Process.Wait:err", "Decode(pid):err", "FindProcess(pid_first):err",
     "FindProcess(pid):err", "Sendmsg(cred):err", "Marshal(req):err", "Write(req):err",
     "processResponse:err"}

TransportErrorAfterLaunch(e) ==
    /\ Count(log[e], "cmd.Start") = 1
    /\ \/ \E i \in 1..Len(log[e]) : log[e][i] \in TransportErrorSteps
       \/ hp[e].first = "reaped" /\ Count(log[e], "Decode(pid)") = 0
                                 /\ Count(log[e], "Decode(pid):err") = 0

\* C7: every transport error after the launch of the first child makes
\* SendRequest return an error with the reaper notified through nsenterReapReq().
C7_TransportErrorReapReq ==
    \A e \in Events :
        JustReturned(e) /\ TransportErrorAfterLaunch(e) =>
            /\ ev[e].ret = "err"
            /\ Count(log[e], "nsenterReapReq") >= 1

\* The agent of a synchronous event received a request outside the protocol:
\* an unknown type tag, or a payload that does not decode.
ProtocolErrorAnswered(e) ==
    /\ ~ev[e].async
    /\ JustReturned(e)
    /\ ev[e].kind \in {"setattr", "badPayload"}
    /\ Count(log[e], "Write(req)") = 1

\* C8: the master handles the agent's reply to such a request as it handles
\* the ErrorResponse of a failed syscall: processResponse succeeds, SendRequest
\* returns nil, ResMsg is an ErrorResponse, the grand-child is waited on and no
\* reap request is issued.
C8_ProtocolErrorLikeSyscallError ==
    \A e \in Events :
        ProtocolErrorAnswered(e) =>
            /\ Count(log[e], "processResponse") = 1
            /\ ev[e].ret = "nil"
            /\ ev[e].ResMsg.Type = "ErrorResponse"
            /\ Count(log[e], "Process.Wait") = 1
            /\ Count(log[e], "nsenterReapReq") = 0

\* The response an agent gives to the request of event e, as its master
\* decodes it.
OwnResponse(e) ==
    processResponse(NoMsg,
                    AgentRun([cred |-> [ok |-> TRUE, pid |-> ev[e].Pid],
                              req |-> MarshalMsg(ev[e].ReqMsg),
                              env |-> DefaultEnv]).out).ResMsg

OnPair(p) == {pipes[p].toChild[i] : i \in 1..Len(pipes[p].toChild)}
                 \cup {pipes[p].toMaster[i] : i \in 1..Len(pipes[p].toMaster)}

\* C12: concurrent SendRequest calls on distinct events do not share a socket
\* pair or a helper chain, and no event's master or agent reads a pid message,
\* credentials, a request or a response written on behalf of another event; the
\* response stored in an event's ResMsg is the one its own request produces.
C12_NoCrossDelivery ==
    \A e \in DOMAIN ev :
        /\ \A f \in DOMAIN ev : f # e /\ ev[e].pair # 0 => ev[f].pair # ev[e].pair
        /\ \A f \in DOMAIN ev : f # e /\ hp[e].agentPid # 0 => hp[f].agentPid # hp[e].agentPid
        /\ ev[e].pair # 0 => \A m \in OnPair(ev[e].pair) : m.from = e
        /\ got[e].pid \in {0, e} /\ got[e].cred \in {0, e}
        /\ got[e].req \in {0, e} /\ got[e].res \in {0, e}
        /\ hp[e].grand = "exited" => got[e].cred = e /\ got[e].req = e
        /\ ev[e].ResMsg.Type # "none" =>
              /\ got[e].res = e
              /\ ev[e].ResMsg.Type = OwnResponse(e).Type
              /\ ev[e].ResMsg = OwnResponse(e)

\* Two concurrent requests of different kinds ran to their ends, and each
\* event holds the response to its own request.
C12_Witness ==
    /\ DOMAIN ev = (1..MaxConc)
    /\ \A e \in (1..MaxConc) : ev[e].pc = "returned" /\ ev[e].ret = "nil"
    /\ ev[1].ResMsg.Type = "ErrorResponse"
    /\ ev[2].ResMsg.Type = "ReadFileResponse"
    /\ got[1].res = 1 /\ got[2].res = 2

StepBefore(q, a, b) == \E i, j \in 1..Len(q) : i < j /\ q[i] = a /\ q[j] = b

PipeMessages == <<"netlink", "cred", "request">>

\* C13: within one SendRequest the master writes on the pipe the netlink
\* attribute, then the credentials, then the request, and nothing else (all
\* three once the request is written); it decodes the pid message before it
\* sends the credentials; the decoder of the pid message takes no other message
\* into its buffer, and the first message read after the request is written is
\* the response.
C13_PipeMessageOrder ==
    \A e \in DOMAIN ev :
        /\ \E n \in 0..Len(PipeMessages) : got[e].wrote = SubSeq(PipeMessages, 1, n)
        /\ Count(log[e], "Write(req)") > 0 => got[e].wrote = PipeMessages
        /\ Count(got[e].wrote, "cred") > 0 =>
              /\ got[e].pid = e
              /\ StepBefore(log[e], "Decode(pid)", "Sendmsg(cred)")
        /\ got[e].lost = 0
        /\ got[e].first \in {"none", "response", "eof"}
        /\ got[e].first = "response" => StepBefore(log[e], "Write(req)", "processResponse")
                                        \/ StepBefore(log[e], "Write(req)", "processResponse:err")

\* A synchronous request wrote its three messages and then read its response.
C13_Witness ==
    \E e \in DOMAIN ev :
        /\ ~ev[e].async /\ ev[e].pc = "returned" /\ ev[e].ret = "nil"
        /\ got[e].wrote = PipeMessages
        /\ got[e].first = "response"
        /\ ev[e].ResMsg.Type = "ReadFileResponse"

\* The last TerminateRequest on event e saw its shutdown or its kill fail.
TerminateCallFailed(e) ==
    /\ ev[e].nTerm > 0
    /\ Len(log[e]) > 2
    /\ log[e][Len(log[e]) - 2] \in {"Shutdown(SHUT_WR):err", "Process.Kill:err"}

\* C14 as stated: a TerminateRequest on a dispatched asynchronous event never
\* returns an error.
C14_TerminateReturnsNil ==
    \A e \in DOMAIN ev : ev[e].async /\ ev[e].ret = "nil" => ev[e].tret # "err"

\* C14: a TerminateRequest returns an error exactly when its shutdown of the
\* pipe or its kill of the grand-child failed, and nil otherwise.
C14_TerminateReturnsCallError ==
    \A e \in DOMAIN ev :
        /\ ev[e].nTerm = 0 <=> ev[e].tret = "none"
        /\ ev[e].nTerm > 0 => (ev[e].tret = "err" <=> TerminateCallFailed(e))
        /\ ev[e].nTerm > 0 => (ev[e].tret = "nil" <=> ~TerminateCallFailed(e))

\* A dispatched asynchronous event whose TerminateRequest failed to signal the
\* grand-child and returned that error.
C14_Witness ==
    \E e \in DOMAIN ev :
        /\ ev[e].async /\ ev[e].ret = "nil" /\ ev[e].nTerm = 1
        /\ ev[e].tret = "err"
        /\ log[e][Len(log[e]) - 2] = "Process.Kill:err"

\* The calls the step added to the log of event e.
StepsAdded(e) == SubSeq(log'[e], Len(log[e]) + 1, Len(log'[e]))

\* C15: a TerminateRequest on an event whose grand-child handle is set shuts
\* down the write side of the pipe, signals the grand-child and calls
\* nsenterEnded, whether or not the shutdown succeeds.
C15_TerminateAlwaysSignals ==
    [][\A e \in DOMAIN ev :
          ev[e].pc = "returned" /\ ev'[e].nTerm = ev[e].nTerm + 1 /\ ev[e].Process # "nil" =>
              /\ Count(StepsAdded(e), "Shutdown(SHUT_WR)")
                     + Count(StepsAdded(e), "Shutdown(SHUT_WR):err") = 1
              /\ Count(StepsAdded(e), "Process.Kill")
                     + Count(StepsAdded(e), "Process.Kill:err") = 1
              /\ Count(StepsAdded(e), "nsenterEnded") = 1]_vars

\* "<nstype>:/proc/<pid>/ns/<nstype>".
NsPathFormat(nstype, pid) ==
    <<nstype, ":", "/", "proc", "/">> \o Itoa(pid) \o <<"/", "ns", "/", nstype>>

\* C16: the NsPaths attribute SendRequest sends holds one entry per element of
\* the event's namespace list, in the order of the list, each entry being
\* "<nstype>:/proc/<pid>/ns/<nstype>" for the event's Pid, joined by commas.
C16_NsPathsFormat ==
    \A e \in DOMAIN ev :
        /\ Len(namespacePaths(ev[e])) = Len(ev[e].Namespace)
        /\ \A i \in 1..Len(ev[e].Namespace) :
              namespacePaths(ev[e])[i] = NsPathFormat(ev[e].Namespace[i], ev[e].Pid)
        /\ ev[e].pair # 0 =>
              \A i \in 1..Len(pipes[ev[e].pair].toChild) :
                  pipes[ev[e].pair].toChild[i].kind = "netlink" =>
                      pipes[ev[e].pair].toChild[i].attr =
                          stringsJoin([j \in 1..Len(ev[e].Namespace) |->
                                          NsPathFormat(ev[e].Namespace[j], ev[e].Pid)], ",")

\* The calls of the agent that served the request of event e.
AgentCallsOf(e) ==
    AgentRun([cred |-> [ok |-> TRUE, pid |-> ev[e].Pid],
              req |-> MarshalMsg(ev[e].ReqMsg),
              env |-> DefaultEnv]).st.calls

\* The errors of the syscalls of the operation proper that failed at the agent
\* of event e.
SyscallErrorsOf(e) ==
    {AgentCallsOf(e)[i].err :
        i \in {j \in 1..Len(AgentCallsOf(e)) :
                  /\ AgentCallsOf(e)[j].op \in PathSyscalls
                  /\ AgentCallsOf(e)[j].role = "main"
                  /\ AgentCallsOf(e)[j].err # NoErr}}

\* A synchronous SendRequest has returned for an event whose agent received
\* the request and had a syscall of the operation fail.
SyncReturnedAfterSyscallError(e) ==
    /\ ~ev[e].async /\ ev[e].pc = "returned" /\ ev[e].nTerm = 0
    /\ got[e].req = e
    /\ SyscallErrorsOf(e) # {}

\* C20: when a syscall of the agent's operation fails, the synchronous
\* SendRequest returns nil, ResMsg is an ErrorResponse carrying the error
\* captured at the agent, the master waits on the grand-child itself, calls
\* nsenterEnded once and does not call nsenterReapReq.
C20_SyscallErrorIsAResponse ==
    \A e \in DOMAIN ev :
        SyncReturnedAfterSyscallError(e) =>
            /\ ev[e].ret = "nil"
            /\ ev[e].ResMsg.Type = "ErrorResponse"
            /\ ev[e].ResMsg.Payload.gt = "IOerror"
            /\ ev[e].ResMsg.Payload.v \in SyscallErrorsOf(e)
            /\ Count(log[e], "Process.Wait") = 1
            /\ hp[e].grand = "reaped"
            /\ Count(log[e], "nsenterEnded") = 1
            /\ Count(log[e], "nsenterReapReq") = 0

\* The Lookup of a missing file came back to the master as ENOENT.
C20_Witness ==
    \E e \in DOMAIN ev :
        /\ SyncReturnedAfterSyscallError(e)
        /\ ev[e].ReqMsg.Type = "LookupRequest"
        /\ IsErrorResponseOf(ev[e].ResMsg, "ENOENT")
        /\ reaper.ended = 1

\* The step takes SendRequest on event e from the wait on the first child on.
HandshakeStep(e) == ev[e].pc = "waitFirst" /\ ev'[e].pc # "waitFirst"

SendsCredOrRequest(steps) ==
    Count(steps, "Sendmsg(cred)") + Count(steps, "Sendmsg(cred):err")
        + Count(steps, "Marshal(req)") + Count(steps, "Marshal(req):err")
        + Count(steps, "Write(req)") + Count(steps, "Write(req):err") > 0

\* C25: SendRequest sends the credentials and the request only after the first
\* child has exited with success and the pid message has been decoded; when the
\* first child exits with another status it returns an error and writes
\* neither; an error of the wait on the second child is ignored: the request
\* is written and no error is returned.
C25_HandshakeGates ==
    [][\A e \in DOMAIN ev :
          HandshakeStep(e) =>
              /\ hp[e].first = "exited1" =>
                    /\ ev'[e].pc = "returned" /\ ev'[e].ret = "err"
                    /\ ~SendsCredOrRequest(StepsAdded(e))
                    /\ got'[e].wrote = got[e].wrote
                    /\ pipes'[ev[e].pair].toChild = pipes[ev[e].pair].toChild
              /\ SendsCredOrRequest(StepsAdded(e)) =>
                    /\ hp[e].first = "exited0"
                    /\ StepBefore(StepsAdded(e), "cmd.Process.Wait", "Decode(pid)")
                    /\ \/ StepBefore(StepsAdded(e), "Decode(pid)", "Sendmsg(cred)")
                       \/ StepBefore(StepsAdded(e), "Decode(pid)", "Sendmsg(cred):err")
                    /\ got'[e].pid = e
              /\ Count(StepsAdded(e), "firstChildProcess.Wait:err") > 0 =>
                    /\ StepBefore(StepsAdded(e), "firstChildProcess.Wait:err", "Sendmsg(cred)")
                    /\ StepBefore(StepsAdded(e), "firstChildProcess.Wait:err", "Write(req)")
                    /\ ev'[e].ret # "err"]_vars

\* The wait on the second child failed and the request was written all the same.
C25_Witness ==
    \E e \in DOMAIN ev :
        /\ Count(log[e], "firstChildProcess.Wait:err") = 1
        /\ got[e].wrote = PipeMessages
        /\ ev[e].pc = "waitResp"

\* Every b of q has an a before it.
OnlyAfter(q, a, b) ==
    \A j \in 1..Len(q) : q[j] = b => \E i \in 1..(j - 1) : q[i] = a

ProcessResponseReturned(q) ==
    Count(q, "processResponse") + Count(q, "processResponse:err") = 1

C27_SuccessReapsAllHelpers ==
    \A e \in DOMAIN ev :
        ~ev[e].async /\ JustReturned(e) /\ ev[e].ret = "nil" =>
            /\ Count(log[e], "cmd.Process.Wait") = 1
            /\ Count(log[e], "firstChildProcess.Wait")
                   + Count(log[e], "firstChildProcess.Wait:err") = 1
            /\ Count(log[e], "Process.Wait") = 1
            /\ StepBefore(log[e], "cmd.Process.Wait", "FindProcess(pid_first)")
            /\ StepBefore(log[e], "FindProcess(pid)", "Process.Wait")
            /\ hp[e].first = "reaped"
            /\ hp[e].second \in {"reaped", "reapedElsewhere"}
            /\ hp[e].grand = "reaped"
            /\ Count(log[e], "nsenterReapReq") = 0

\* A synchronous request answered with nil whose three helpers the master reaped.
C27_Witness ==
    \E e \in DOMAIN ev :
        /\ ~ev[e].async /\ JustReturned(e) /\ ev[e].ret = "nil"
        /\ hp[e].first = "reaped" /\ hp[e].second = "reaped" /\ hp[e].grand = "reaped"
        /\ reaper.reapReq = 0

\* C31: whatever SendRequest and TerminateRequest calls were made on the events
\* (TerminateRequest twice on an event, on an async event whose SendRequest
\* returned an error, on a synchronous event), nsenterEnded has not been called
\* more often than nsenterStarted.
C31_EndedNeverExceedsStarted ==
    /\ reaper.ended <= reaper.started
    /\ \A e \in DOMAIN ev : Count(log[e], "nsenterEnded") <= Count(log[e], "nsenterStarted")

\* C33: when every helper process runs to its exit, SendRequest on a
\* synchronous event returns; when the grand-child has exited without a
\* response, the master, whose copy of the child end is closed, reads the end
\* of file and SendRequest returns the error of processResponse.
C33_SyncSendRequestReturns ==
    /\ \A e \in Events :
          (~ev[e].async /\ ev[e].pc \in {"waitFirst", "waitResp"}) ~> (ev[e].pc = "returned")
    /\ [](\A e \in Events :
            ~ev[e].async /\ JustReturned(e) /\ got[e].first = "eof" =>
                /\ ev[e].childPipe = "closed"
                /\ ev[e].ret = "err"
                /\ Count(log[e], "processResponse:err") = 1)

\* The grand-child of a synchronous event exited without a response, the master
\* read the end of file and SendRequest returned an error.
C33_Witness ==
    \E e \in Events :
        /\ ~ev[e].async /\ JustReturned(e)
        /\ hp[e].grand = "exited"
        /\ got[e].first = "eof"
        /\ ev[e].ret = "err"

\* Envelopes whose type tag processResponse has no case for.
UnknownTagWires == {[Type |-> t, Payload |-> JsonNull] : t \in {"SetAttrResponse", "LookupRequest"}}

\* C34: when processResponse returns an error (the envelope or its payload does
\* not decode, or the type tag is unknown) the event's ResMsg is what it was
\* before, and SendRequest returns an error exactly then, so that
\* ReceiveResponse shows no partly decoded response.
C34_FailedResponseLeavesResMsg ==
    [][/\ \A e \in DOMAIN ev :
             ev[e].pc = "waitResp" /\ ev'[e].pc = "returned" =>
                 /\ Count(StepsAdded(e), "processResponse:err") = 1 =>
                       /\ ev'[e].ResMsg.Type = ev[e].ResMsg.Type
                       /\ ev'[e].ResMsg = ev[e].ResMsg
                       /\ ev'[e].ret = "err"
                 /\ ev'[e].ret = "err" => Count(StepsAdded(e), "processResponse:err") = 1
       /\ \A w \in UnknownTagWires \cup {NoWire}, m \in {NoMsg, Msg("SleepResponse", GoString(<<>>))} :
             /\ processResponse(m, w).err # NoErr
             /\ processResponse(m, w).ResMsg.Type = m.Type
             /\ processResponse(m, w).ResMsg = m]_vars

\* SendRequest returned the error of a response whose payload did not decode,
\* and ResMsg is unset.
C34_Witness ==
    \E e \in DOMAIN ev :
        /\ ~ev[e].async /\ JustReturned(e)
        /\ Count(log[e], "processResponse:err") = 1
        /\ got[e].first = "response"
        /\ ev[e].ret = "err"
        /\ ev[e].ResMsg = NoMsg

\* ---------------------------------- the /proc/sys/net/unix handler: writes

\* GetResourceMutex("max_dgram_qlen"): "resource, ok := h.EmuResourceMap[s]"
\* copies the map's EmuResource, mutex included, into a local variable, and the
\* address of that copy's mutex is returned.  The pointer is to a mutex instance
\* of its own, in the (unlocked) state of the map's mutex, which nobody locks.
GetResourceMutex(m) == [mus |-> Append(m, FALSE), ptr |-> Len(m) + 1]

HandlerInit ==
    /\ \E v \in [Writers -> WriteValues] : wr = [w \in Writers |-> NewWriter(v[w])]
    /\ mus = <<>>
    /\ qlen = 5
    /\ hc = NoCall
    /\ AgentIdle
    /\ FabricIdle
    /\ DaemonIdle

\* ProcSysNetUnix.Write on max_dgram_qlen: hands over to writeFileMaxInt.
Write(w) ==
    /\ wr[w].pc = "idle"
    /\ wr' = [wr EXCEPT ![w].pc = "getmutex"]
    /\ UNCHANGED <<mus, qlen, hc, nonHandlerVars>>

H_GetResourceMutex(w) ==
    /\ wr[w].pc = "getmutex"
    /\ LET r == GetResourceMutex(mus)
       IN  /\ mus' = r.mus
           /\ wr' = [wr EXCEPT ![w].mu = r.ptr, ![w].pc = "lock"]
    /\ UNCHANGED <<qlen, hc, nonHandlerVars>>

\* Lock() on the mutex the writer was handed: blocks while it is locked.
Lock(w) ==
    /\ wr[w].pc = "lock"
    /\ ~mus[wr[w].mu]
    /\ mus' = [mus EXCEPT ![wr[w].mu] = TRUE]
    /\ wr' = [wr EXCEPT ![w].pc = "read"]
    /\ UNCHANGED <<qlen, hc, nonHandlerVars>>

\* The current value is read through the agent (ReadFile).
ReadCurrent(w) ==
    /\ wr[w].pc = "read"
    /\ wr' = [wr EXCEPT ![w].cur = qlen, ![w].pc = "check"]
    /\ UNCHANGED <<mus, qlen, hc, nonHandlerVars>>

\* The bounds check: only a value above the current one is written.
BoundsCheck(w) ==
    /\ wr[w].pc = "check"
    /\ wr' = [wr EXCEPT ![w].pc = IF wr[w].val > wr[w].cur THEN "write" ELSE "unlock"]
    /\ UNCHANGED <<mus, qlen, hc, nonHandlerVars>>

\* The new value is written through the agent (WriteFile).
WriteNew(w) ==
    /\ wr[w].pc = "write"
    /\ qlen' = wr[w].val
    /\ wr' = [wr EXCEPT ![w].pc = "unlock"]
    /\ UNCHANGED <<mus, hc, nonHandlerVars>>

Unlock(w) ==
    /\ wr[w].pc = "unlock"
    /\ mus' = [mus EXCEPT ![wr[w].mu] = FALSE]
    /\ wr' = [wr EXCEPT ![w].pc = "done"]
    /\ UNCHANGED <<qlen, hc, nonHandlerVars>>

HandlerNext ==
    \/ \E w \in Writers : Write(w)
    \/ \E w \in Writers : H_GetResourceMutex(w)
    \/ \E w \in Writers : Lock(w)
    \/ \E w \in Writers : ReadCurrent(w)
    \/ \E w \in Writers : BoundsCheck(w)
    \/ \E w \in Writers : WriteNew(w)
    \/ \E w \in Writers : Unlock(w)

HandlerSpec == HandlerInit /\ [][HandlerNext]_vars

\* ------------------------------------ /proc/sys/net/unix handler: operations

\* h.EmuResourceMap: the emulated resources and their modes.
EmuResourceMap == [r \in {"max_dgram_qlen"} |-> [Kind |-> "FileEmuResource", Mode |-> "0644"]]

\* Names of the nodes the operations are called on.
NodeNames == {"max_dgram_qlen", "somaxconn", "nosuch"}

\* Requests: their offsets.
HandlerRequests == {[ID |-> 1, Offset |-> o] : o \in 0..1}

NoHandlerErr == "No /proc/sys/ handler found"

\* What a handler operation gives back: its value and error, the calls it
\* made on the /proc/sys/ handler and the operations it asked of the agent.
Result(val, err, fwd, agent) == [val |-> val, err |-> err, fwd |-> fwd, agent |-> agent]

\* The answers of whom the handler asks (the /proc/sys/ handler, or the agent),
\* for a value ok of the operation's type and its zero value.
Answers(ok, zero) ==
    {[val |-> ok, err |-> NoErr], [val |-> zero, err |-> "ENOENT"], [val |-> zero, err |-> "EIO"]}

\* Lookup answering for the resources it does not emulate by itself.
ProcSysNetUnix_LookupNoDelegation(n, req, reg, ans) ==
    IF n \in DOMAIN EmuResourceMap
    THEN Result([Fname |-> n, Fmode |-> EmuResourceMap[n].Mode], NoErr, <<>>, <<>>)
    ELSE Result([Fname |-> "", Fmode |-> ""], "ENOENT", <<>>, <<>>)

\* Lookup; reg: the registry holds a handler for "/proc/sys/"; ans: what that
\* handler's Lookup returns.
ProcSysNetUnix_Lookup(n, req, reg, ans) ==
    IF n \in DOMAIN EmuResourceMap
    THEN Result([Fname |-> n, Fmode |-> EmuResourceMap[n].Mode], NoErr, <<>>, <<>>)
    ELSE IF ~reg THEN Result([Fname |-> "", Fmode |-> ""], NoHandlerErr, <<>>, <<>>)
    ELSE Result(ans.val, ans.err, <<[op |-> "Lookup", n |-> n, req |-> req]>>, <<>>)

\* Open handing every resource, the emulated one included, to the /proc/sys/
\* handler.
ProcSysNetUnix_OpenAlwaysDelegates(n, req, reg, ans) ==
    IF ~reg THEN Result(0, NoHandlerErr, <<>>, <<>>)
    ELSE Result(0, ans.err, <<[op |-> "Open", n |-> n, req |-> req]>>, <<>>)

ProcSysNetUnix_Open(n, req, reg, ans) ==
    IF n = "max_dgram_qlen" THEN Result(0, NoErr, <<>>, <<>>)
    ELSE IF ~reg THEN Result(0, NoHandlerErr, <<>>, <<>>)
    ELSE Result(0, ans.err, <<[op |-> "Open", n |-> n, req |-> req]>>, <<>>)

\* readFileInt: the resource is read through the agent (ReadFile on the node's
\* path); the agent's answer, a number of bytes or an error, is the result.
readFileInt(n, req, ans) ==
    Result(ans.val, ans.err, <<>>, <<[Type |-> "ReadFileRequest", File |-> n]>>)

\* Read without the early return on a positive offset.
ProcSysNetUnix_ReadAnyOffset(n, req, reg, ans) ==
    IF n = "max_dgram_qlen" THEN readFileInt(n, req, ans)
    ELSE IF ~reg THEN Result(0, NoHandlerErr, <<>>, <<>>)
    ELSE Result(ans.val, ans.err, <<[op |-> "Read", n |-> n, req |-> req]>>, <<>>)

ProcSysNetUnix_Read(n, req, reg, ans) ==
    IF req.Offset > 0 THEN Result(0, "EOF", <<>>, <<>>)
    ELSE IF n = "max_dgram_qlen" THEN readFileInt(n, req, ans)
    ELSE IF ~reg THEN Result(0, NoHandlerErr, <<>>, <<>>)
    ELSE Result(ans.val, ans.err, <<[op |-> "Read", n |-> n, req |-> req]>>, <<>>)

\* Write calling the /proc/sys/ handler without testing that FindHandler found one.
ProcSysNetUnix_WriteUnchecked(n, req, reg, ans) ==
    IF n = "max_dgram_qlen"
    THEN Result(ans.val, ans.err, <<>>,
                <<[Type |-> "ReadFileRequest", File |-> n],
                  [Type |-> "WriteFileRequest", File |-> n]>>)
    ELSE Result(ans.val, ans.err, <<[op |-> "Write", n |-> n, req |-> req]>>, <<>>)

\* Write; the emulated resource goes through writeFileMaxInt, whose steps are
\* those of the writers above (the agent's answer stands for their outcome).
ProcSysNetUnix_Write(n, req, reg, ans) ==
    IF n = "max_dgram_qlen"
    THEN Result(ans.val, ans.err, <<>>,
                <<[Type |-> "ReadFileRequest", File |-> n],
                  [Type |-> "WriteFileRequest", File |-> n]>>)
    ELSE IF ~reg THEN Result(0, NoHandlerErr, <<>>, <<>>)
    ELSE Result(ans.val, ans.err, <<[op |-> "Write", n |-> n, req |-> req]>>, <<>>)

\* ReadDirAll: the entries of the /proc/sys/ handler; its error is dropped and
\* the entries collected so far (none) are returned with a nil error.
ProcSysNetUnix_ReadDirAll(n, req, reg, ans) ==
    IF ~reg THEN Result(<<>>, NoHandlerErr, <<>>, <<>>)
    ELSE Result(IF ans.err = NoErr THEN ans.val ELSE <<>>, NoErr,
                <<[op |-> "ReadDirAll", n |-> n, req |-> req]>>, <<>>)

\* A call of an operation, from its entry to its return.
Returned(op, n, req, reg, ans, r) ==
    [pc |-> "returned", op |-> op, n |-> n, req |-> req, reg |-> reg, ans |-> ans, ret |-> r]

OpsInit ==
    /\ hc = NoCall
    /\ wr = [w \in Writers |-> NewWriter(0)]
    /\ mus = <<>>
    /\ qlen = 5
    /\ AgentIdle
    /\ FabricIdle
    /\ DaemonIdle

Call_Lookup ==
    /\ hc.pc = "idle"
    /\ \E n \in NodeNames, req \in HandlerRequests, reg \in BOOLEAN,
          ans \in Answers([Fname |-> "found", Fmode |-> "0644"], [Fname |-> "", Fmode |-> ""]) :
          hc' = Returned("Lookup", n, req, reg, ans, ProcSysNetUnix_Lookup(n, req, reg, ans))
    /\ UNCHANGED <<wr, mus, qlen, nonHandlerVars>>

Call_Open ==
    /\ hc.pc = "idle"
    /\ \E n \in NodeNames, req \in HandlerRequests, reg \in BOOLEAN, ans \in Answers(0, 0) :
          hc' = Returned("Open", n, req, reg, ans, ProcSysNetUnix_Open(n, req, reg, ans))
    /\ UNCHANGED <<wr, mus, qlen, nonHandlerVars>>

Call_Read ==
    /\ hc.pc = "idle"
    /\ \E n \in NodeNames, req \in HandlerRequests, reg \in BOOLEAN, ans \in Answers(3, 0) :
          hc' = Returned("Read", n, req, reg, ans, ProcSysNetUnix_Read(n, req, reg, ans))
    /\ UNCHANGED <<wr, mus, qlen, nonHandlerVars>>

Call_Write ==
    /\ hc.pc = "idle"
    /\ \E n \in NodeNames, req \in HandlerRequests, reg \in BOOLEAN, ans \in Answers(3, 0) :
          hc' = Returned("Write", n, req, reg, ans, ProcSysNetUnix_Write(n, req, reg, ans))
    /\ UNCHANGED <<wr, mus, qlen, nonHandlerVars>>

Call_ReadDirAll ==
    /\ hc.pc = "idle"
    /\ \E n \in NodeNames, req \in HandlerRequests, reg \in BOOLEAN,
          ans \in Answers(<<"somaxconn", "max_dgram_qlen">>, <<>>) :
          hc' = Returned("ReadDirAll", n, req, reg, ans,
                         ProcSysNetUnix_ReadDirAll(n, req, reg, ans))
    /\ UNCHANGED <<wr, mus, qlen, nonHandlerVars>>

OpsNext ==
    \/ Call_Lookup
    \/ Call_Open
    \/ Call_Read
    \/ Call_Write
    \/ Call_ReadDirAll

OpsSpec == OpsInit /\ [][OpsNext]_vars

\* ------------------------------------------- daemon: main and signalHandler

\* The signals main registers for.
Signals == {"SIGHUP", "SIGINT", "SIGTERM", "SIGSEGV", "SIGQUIT"}

\* Number of signals delivered to the daemon in a run.
MaxSignals == 2

DaemonInit ==
    /\ sg = DaemonStart
    /\ AgentIdle
    /\ FabricIdle
    /\ HandlerIdle

\* main: make(chan os.Signal), an unbuffered channel, and signal.Notify on it.
Main_Notify ==
    /\ sg.main = "init"
    /\ sg' = [sg EXCEPT !.main = "notified"]
    /\ UNCHANGED nonDaemonVars

\* main: go signalHandler(signalChan, fuseService); the goroutine exists and has
\* not run yet; main goes on to fuseService.Run().
Main_GoSignalHandler ==
    /\ sg.main = "notified"
    /\ sg' = [sg EXCEPT !.main = "run", !.handler = "created"]
    /\ UNCHANGED nonDaemonVars

\* signalHandler is scheduled and blocks in the receive on signalChan.
signalHandler_Receive ==
    /\ sg.exit = "running"
    /\ sg.handler = "created"
    /\ sg' = [sg EXCEPT !.handler = "receiving"]
    /\ UNCHANGED nonDaemonVars

\* A registered signal is delivered: the runtime sends it on signalChan without
\* blocking, so the signal is handed over when signalHandler is blocked in its
\* receive and dropped otherwise (the channel has no buffer).
Signal_Deliver ==
    /\ sg.exit = "running"
    /\ sg.main # "init"
    /\ Len(sg.delivered) < MaxSignals
    /\ \E s \in Signals :
          sg' = IF sg.handler = "receiving"
                THEN [sg EXCEPT !.delivered = Append(@, s), !.s = s, !.handler = "received"]
                ELSE [sg EXCEPT !.delivered = Append(@, s), !.dropped = Append(@, s)]
    /\ UNCHANGED nonDaemonVars

\* signalHandler: the warning for the signal received, then fs.Unmount().
signalHandler_Unmount ==
    /\ sg.exit = "running"
    /\ sg.handler = "received"
    /\ sg' = [sg EXCEPT !.handler = "unmounted", !.unmounts = @ + 1]
    /\ UNCHANGED nonDaemonVars

\* signalHandler: time.Sleep(2), then os.Exit(0).
signalHandler_Exit ==
    /\ sg.exit = "running"
    /\ sg.handler = "unmounted"
    /\ sg' = [sg EXCEPT !.handler = "exited", !.exit = "exit0"]
    /\ UNCHANGED nonDaemonVars

DaemonNext ==
    \/ Main_Notify
    \/ Main_GoSignalHandler
    \/ signalHandler_Receive
    \/ Signal_Deliver
    \/ signalHandler_Unmount
    \/ signalHandler_Exit

\* The scheduler runs main and every runnable goroutine; nothing obliges the
\* environment to deliver a signal.
DaemonFairness ==
    /\ WF_vars(Main_Notify)
    /\ WF_vars(Main_GoSignalHandler)
    /\ WF_vars(signalHandler_Receive)
    /\ WF_vars(signalHandler_Unmount)
    /\ WF_vars(signalHandler_Exit)

DaemonSpec == DaemonInit /\ [][DaemonNext]_vars /\ DaemonFairness

\* C30: once main has registered for SIGHUP, SIGINT, SIGTERM, SIGSEGV and
\* SIGQUIT no signal delivered is lost, whatever the progress of the
\* signalHandler goroutine; every delivery leads to the exit of the process
\* with status 0, and the process exits after exactly one call of Unmount.
C30_EverySignalUnmountsAndExits ==
    /\ [](sg.dropped = <<>>)
    /\ [](sg.unmounts <= 1 /\ (sg.exit = "exit0" => sg.unmounts = 1))
    /\ (sg.delivered # <<>>) ~> (sg.exit = "exit0")

\* C17: a Read of max_dgram_qlen at offset 0 is answered through readFileInt,
\* one ReadFile operation of the agent on that resource, whose result is
\* returned, without a call of the /proc/sys/ handler; a Read at a positive
\* offset returns 0 bytes and io.EOF, with no agent operation and no call of
\* the /proc/sys/ handler, whatever the resource.
C17_ReadEmulatedOrEOF ==
    hc.pc = "returned" /\ hc.op = "Read" =>
        /\ hc.req.Offset > 0 =>
              /\ hc.ret.val = 0 /\ hc.ret.err = "EOF"
              /\ hc.ret.agent = <<>> /\ hc.ret.fwd = <<>>
        /\ hc.req.Offset = 0 /\ hc.n = "max_dgram_qlen" =>
              /\ hc.ret.agent = <<[Type |-> "ReadFileRequest", File |-> "max_dgram_qlen"]>>
              /\ hc.ret.fwd = <<>>
              /\ hc.ret.val = hc.ans.val /\ hc.ret.err = hc.ans.err

\* A Read at offset 1 of a resource that is not emulated, with the /proc/sys/
\* handler registered and ready to answer, returned the end of file.
C17_Witness ==
    /\ hc.pc = "returned" /\ hc.op = "Read"
    /\ hc.req.Offset = 1 /\ hc.n = "somaxconn" /\ hc.reg /\ hc.ans.err = NoErr
    /\ hc.ret.err = "EOF" /\ hc.ret.val = 0

\* C18: for a resource that the handler does not emulate, Lookup, Open, Read
\* at offset 0 and Write call the same operation of the handler registered for
\* "/proc/sys/", once, with the node and the request they were given, ask
\* nothing of the agent themselves, and return that handler's result and error.
C18_DelegatesUnchanged ==
    /\ hc.pc = "returned"
    /\ hc.op \in {"Lookup", "Open", "Read", "Write"}
    /\ hc.n \notin DOMAIN EmuResourceMap
    /\ hc.op = "Read" => hc.req.Offset = 0
    /\ hc.reg
    => /\ hc.ret.fwd = <<[op |-> hc.op, n |-> hc.n, req |-> hc.req]>>
       /\ hc.ret.agent = <<>>
       /\ hc.ret.err = hc.ans.err
       /\ hc.ret.val = hc.ans.val

\* The Lookup of "nosuch" returned the ENOENT of the /proc/sys/ handler.
C18_Witness ==
    /\ hc.pc = "returned" /\ hc.op = "Lookup" /\ hc.n = "nosuch" /\ hc.reg
    /\ hc.ans.err = "ENOENT"
    /\ hc.ret.err = "ENOENT"
    /\ Len(hc.ret.fwd) = 1

\* C19: when the ReadDirAll of the /proc/sys/ handler fails, ReadDirAll returns
\* that error.
C19_ReadDirAllReturnsParentError ==
    hc.pc = "returned" /\ hc.op = "ReadDirAll" /\ hc.reg /\ hc.ans.err # NoErr =>
        hc.ret.err = hc.ans.err

\* C29: Lookup of a name of the EmuResourceMap returns a FileInfo with that
\* name and the mode registered for it, and Open of max_dgram_qlen returns nil;
\* neither calls the /proc/sys/ handler nor asks anything of the agent.
C29_EmulatedAnsweredLocally ==
    hc.pc = "returned" =>
        /\ hc.op = "Lookup" /\ hc.n \in DOMAIN EmuResourceMap =>
              /\ hc.ret.err = NoErr
              /\ hc.ret.val = [Fname |-> hc.n, Fmode |-> EmuResourceMap[hc.n].Mode]
              /\ hc.ret.fwd = <<>>
              /\ hc.ret.agent = <<>>
        /\ hc.op = "Open" /\ hc.n = "max_dgram_qlen" =>
              /\ hc.ret.err = NoErr
              /\ hc.ret.fwd = <<>>
              /\ hc.ret.agent = <<>>

\* Open of max_dgram_qlen returned nil although the /proc/sys/ handler is
\* missing or would have failed.
C29_Witness ==
    /\ hc.pc = "returned" /\ hc.op = "Open" /\ hc.n = "max_dgram_qlen"
    /\ hc.ans.err # NoErr
    /\ hc.ret.err = NoErr

\* The call needs the /proc/sys/ handler: an operation on a name the handler
\* does not answer by itself.
NeedsParent ==
    CASE hc.op = "Lookup" -> hc.n \notin DOMAIN EmuResourceMap
      [] hc.op = "Open" -> hc.n # "max_dgram_qlen"
      [] hc.op = "Read" -> hc.req.Offset = 0 /\ hc.n # "max_dgram_qlen"
      [] hc.op = "Write" -> hc.n # "max_dgram_qlen"
      [] hc.op = "ReadDirAll" -> TRUE

\* The result of the call is the zero value of the operation's result type.
ZeroResult ==
    CASE hc.op = "Lookup" -> hc.ret.val = [Fname |-> "", Fmode |-> ""]
      [] hc.op = "ReadDirAll" -> hc.ret.val = <<>>
      [] OTHER -> hc.ret.val = 0

\* What the call would have returned with the registry the other way round.
SameWithOtherRegistry ==
    CASE hc.op = "Lookup" -> hc.ret = ProcSysNetUnix_Lookup(hc.n, hc.req, ~hc.reg, hc.ans)
      [] hc.op = "Open" -> hc.ret = ProcSysNetUnix_Open(hc.n, hc.req, ~hc.reg, hc.ans)
      [] hc.op = "Read" -> hc.ret = ProcSysNetUnix_Read(hc.n, hc.req, ~hc.reg, hc.ans)
      [] hc.op = "Write" -> hc.ret = ProcSysNetUnix_Write(hc.n, hc.req, ~hc.reg, hc.ans)
      [] hc.op = "ReadDirAll" -> hc.ret = ProcSysNetUnix_ReadDirAll(hc.n, hc.req, ~hc.reg, hc.ans)

\* C35: with no handler registered for /proc/sys/, every operation that needs
\* it returns "No /proc/sys/ handler found" with a zero result and calls
\* nothing on the missing handler; the operations on max_dgram_qlen return the
\* same whether or not the handler is registered.
C35_MissingParentIsAnError ==
    hc.pc = "returned" =>
        /\ ~hc.reg /\ NeedsParent =>
              /\ hc.ret.err = NoHandlerErr
              /\ ZeroResult
              /\ hc.ret.fwd = <<>>
              /\ hc.ret.agent = <<>>
        /\ ~hc.reg => hc.ret.fwd = <<>>
        /\ hc.op # "ReadDirAll" /\ hc.n = "max_dgram_qlen" =>
              /\ SameWithOtherRegistry
              /\ hc.ret.err # NoHandlerErr

\* A Write of a name that is not emulated, with no /proc/sys/ handler registered.
C35_Witness ==
    /\ hc.pc = "returned" /\ hc.op = "Write" /\ hc.n = "somaxconn"
    /\ ~hc.reg
    /\ hc.ret.err = NoHandlerErr

\* Between Lock() and Unlock(): the read / bounds-check / write sequence.
InCriticalSection(w) == wr[w].pc \in {"read", "check", "write", "unlock"}

\* C2: two concurrent writes on max_dgram_qlen that lock the mutex obtained
\* from GetResourceMutex never have overlapping critical sections, every
\* GetResourceMutex call for the resource yielding the same mutex instance.
C2_WritersExcluded ==
    \A w1, w2 \in Writers :
        w1 # w2 =>
            /\ ~(InCriticalSection(w1) /\ InCriticalSection(w2))
            /\ wr[w1].mu # 0 /\ wr[w2].mu # 0 => wr[w1].mu = wr[w2].mu

====
